---------------------------- MODULE Spec2Model ----------------------------
(***************************************************************************)
(* Model of mktool's check-shlibs engine (src/src/check_shlibs.rs and the  *)
(* ELF / Mach-O resolvers under src/src/check_shlibs/).                    *)
(*                                                                         *)
(* Strings are sequences of one-character strings.  A PathBuf is kept as   *)
(* its string, exactly as Rust keeps it; comparison, hashing and           *)
(* starts_with go through Components, as std::path does.                   *)
(***************************************************************************)
EXTENDS Integers, Sequences, FiniteSets, TLC

(***************************************************************************)
(* Strings and std::path                                                   *)
(***************************************************************************)

\* str::starts_with: plain prefix of characters.
StrStartsWith(s, pre) ==
    /\ Len(pre) <= Len(s)
    /\ \A i \in 1..Len(pre) : s[i] = pre[i]

\* Is sequence pre a prefix of sequence s (element-wise)?
IsPrefix(pre, s) ==
    /\ Len(pre) <= Len(s)
    /\ \A i \in 1..Len(pre) : s[i] = pre[i]

\* Path::has_root / is_absolute on Unix.
IsAbsolute(s) == Len(s) > 0 /\ s[1] = "/"

\* The normal components of a string: split on "/", empty pieces dropped.
RECURSIVE SplitSlash(_, _, _)
SplitSlash(s, i, cur) ==
    IF i > Len(s)
    THEN IF cur = <<>> THEN <<>> ELSE <<cur>>
    ELSE IF s[i] = "/"
         THEN (IF cur = <<>> THEN <<>> ELSE <<cur>>) \o SplitSlash(s, i + 1, <<>>)
         ELSE SplitSlash(s, i + 1, Append(cur, s[i]))

\* Path::components: the root component (written <<"/">>) when the string
\* starts with a separator, then the non-empty pieces.
Components(s) ==
    (IF IsAbsolute(s) THEN << <<"/">> >> ELSE <<>>) \o SplitSlash(s, 1, <<>>)

\* Path::starts_with: whole components only.
PathStartsWith(p, base) == IsPrefix(Components(base), Components(p))

\* PathBuf::push: an absolute argument replaces the path; otherwise a
\* separator is added unless the path is empty or already ends with one.
Push(s, p) ==
    IF IsAbsolute(p) THEN p
    ELSE IF Len(s) > 0 /\ s[Len(s)] # "/" THEN s \o <<"/">> \o p
    ELSE s \o p

\* The string left of s after its leading separators.
RECURSIVE DropSeps(_)
DropSeps(s) == IF Len(s) > 0 /\ s[1] = "/" THEN DropSeps(Tail(s)) ELSE s


(***************************************************************************)
(* Diagnostics printed on standard output                                  *)
(***************************************************************************)

\* One printed line: its wording (kind), the object, the library path or
\* name it shows, and the directory / pattern / package it names.
Diag(kind, obj, lib, arg) == [kind |-> kind, obj |-> obj, lib |-> lib, arg |-> arg]

(***************************************************************************)
(* Regex (the subset CHECK_SHLIBS_TOXIC uses in the tests): an optional    *)
(* "^" anchor, then literal characters where "." matches any character.    *)
(***************************************************************************)
MatchAt(lit, text, off) ==
    /\ off + Len(lit) <= Len(text)
    /\ \A i \in 1..Len(lit) : lit[i] = "." \/ lit[i] = text[off + i]

\* Regex::is_match: unanchored search unless the pattern starts with "^".
IsMatch(regex, text) ==
    IF regex.anchored
    THEN MatchAt(regex.lit, text, 0)
    ELSE \E off \in 0..Len(text) : MatchAt(regex.lit, text, off)

\* The pattern as "{regex}" prints it.
RegexStr(regex) == (IF regex.anchored THEN <<"^">> ELSE <<>>) \o regex.lit

(***************************************************************************)
(* check_shlib: the path-policy validator.  acc is (rv, out) as the        *)
(* function carries them from one check to the next.                       *)
(***************************************************************************)
\* Variant: the line is printed but rv is left as it was.
FireKeepRv(acc, d) == [rv |-> acc.rv, out |-> Append(acc.out, d)]

Fire(acc, d) == [rv |-> FALSE, out |-> Append(acc.out, d)]

\* Variant: the path is compared with destdir instead of wrkdir.
ShlibWrkdirDestdir(acc, obj, lib, st) ==
    IF PathStartsWith(lib, st.destdir)
    THEN [rv |-> FALSE, out |-> Append(acc.out, Diag("wrkdir", obj, lib, <<>>))]
    ELSE acc

\* Library paths must not start with WRKDIR.
ShlibWrkdir(acc, obj, lib, st) ==
    IF PathStartsWith(lib, st.wrkdir)
    THEN Fire(acc, Diag("wrkdir", obj, lib, <<>>))
    ELSE acc

\* Verify library does not match CHECK_WRKREF_EXTRA_DIRS (for dir in &state.wrkref).
RECURSIVE ShlibWrkref(_, _, _, _, _)
ShlibWrkref(acc, obj, lib, st, i) ==
    IF i > Len(st.wrkref) THEN acc
    ELSE ShlibWrkref(IF PathStartsWith(lib, st.wrkref[i])
                     THEN Fire(acc, Diag("wrkref", obj, lib, st.wrkref[i]))
                     ELSE acc,
                     obj, lib, st, i + 1)

\* Variant: only the first matching pattern is reported.
ToxicStepFirstOnly(acc, obj, lib, regex) ==
    IF IsMatch(regex, lib) /\ \A j \in 1..Len(acc.out) : acc.out[j].kind # "toxic"
    THEN [rv |-> FALSE,
          out |-> Append(acc.out, Diag("toxic", obj, lib, RegexStr(regex)))]
    ELSE acc

\* One toxic pattern against the resolved path.
ToxicStep(acc, obj, lib, regex) ==
    IF IsMatch(regex, lib)
    THEN Fire(acc, Diag("toxic", obj, lib, RegexStr(regex)))
    ELSE acc

\* for regex in &state.toxic
RECURSIVE ShlibToxic(_, _, _, _, _)
ShlibToxic(acc, obj, lib, st, i) ==
    IF i > Len(st.toxic) THEN acc
    ELSE ShlibToxic(ToxicStep(acc, obj, lib, st.toxic[i]), obj, lib, st, i + 1)

\* Library paths must be absolute.
ShlibRelative(acc, obj, lib) ==
    IF ~PathStartsWith(lib, <<"/">>)
    THEN Fire(acc, Diag("relative", obj, lib, <<>>))
    ELSE acc

CheckShlib(obj, lib, st) ==
    LET a0 == [rv |-> TRUE, out |-> <<>>]
        a1 == ShlibWrkdir(a0, obj, lib, st)
        a2 == ShlibWrkref(a1, obj, lib, st, 1)
        a3 == ShlibToxic(a2, obj, lib, st, 1)
    IN  ShlibRelative(a3, obj, lib)

\* What a call site keeps of a check_shlib call.
ShlibCall(obj, lib, st) ==
    LET r == CheckShlib(obj, lib, st)
    IN  [called |-> TRUE, rv |-> r.rv, out |-> r.out]

NoShlibCall == [called |-> FALSE, rv |-> TRUE, out |-> <<>>]


(***************************************************************************)
(* HashMap<PathBuf, V>: keys are compared by their components.             *)
(***************************************************************************)
MapPut(m, k, v) == [x \in DOMAIN m \cup {k} |-> IF x = k THEN v ELSE m[x]]

EmptyMap == [x \in {} |-> FALSE]

\* Option<String> values of pkgdb.
SomePkg(p) == [some |-> TRUE, pkg |-> p]
NonePkg == [some |-> FALSE, pkg |-> <<>>]

(***************************************************************************)
(* check_pkg: population of pkgdb from "pkg_admin dump"                    *)
(***************************************************************************)
FilePrefix == <<"f", "i", "l", "e", ":", " ">>
PkgMarker == <<" ", "p", "k", "g", ":", " ">>

IsWhitespace(c) == c = " "

\* line.windows(6).position(|s| s == b" pkg: "): the 0-based offsets at
\* which the marker occurs; position() takes the smallest.
MarkerOffsets(line) ==
    {off \in 0..(Len(line) - Len(PkgMarker)) :
        \A i \in 1..Len(PkgMarker) : line[off + i] = PkgMarker[i]}

MarkerPos(line) ==
    CHOOSE off \in MarkerOffsets(line) : \A o \in MarkerOffsets(line) : off <= o

\* line.split(is_whitespace).next_back(): what follows the last whitespace.
RECURSIVE LastField(_)
LastField(line) ==
    IF line = <<>> THEN <<>>
    ELSE IF IsWhitespace(line[Len(line)]) THEN <<>>
    ELSE Append(LastField(SubSeq(line, 1, Len(line) - 1)), line[Len(line)])

\* One line of the dump: the pkgdb after it.
DumpLine(db, line) ==
    IF ~StrStartsWith(line, FilePrefix) THEN db
    ELSE IF MarkerOffsets(line) = {} THEN db
    ELSE LET pos == MarkerPos(line)
             file == SubSeq(line, Len(FilePrefix) + 1, pos)
             pkg == LastField(line)
         IN  MapPut(db, Components(file), SomePkg(pkg))

\* for line in cmd.stdout.split('\n')
RECURSIVE DumpLines(_, _, _)
DumpLines(db, lines, i) ==
    IF i > Len(lines) THEN db
    ELSE DumpLines(DumpLine(db, lines[i]), lines, i + 1)

(***************************************************************************)
(* check_pkg: the ownership validator                                      *)
(***************************************************************************)
\* Variant: "indirect-full" is not taken as a runtime kind.
IsRuntimeKindFullOnly(kind) == kind = "full"

IsRuntimeKind(kind) == kind = "full" \/ kind = "indirect-full"

\* for dep in &state.depends: whether the loop returned Ok(true) from
\* inside (ret) and the value of found when it ended.
RECURSIVE DependsLoop(_, _, _, _)
DependsLoop(depends, pkgname, i, found) ==
    IF i > Len(depends) THEN [ret |-> FALSE, found |-> found]
    ELSE IF depends[i][3] = pkgname
         THEN IF IsRuntimeKind(depends[i][1])
              THEN [ret |-> TRUE, found |-> TRUE]
              ELSE DependsLoop(depends, pkgname, i + 1, TRUE)
         ELSE DependsLoop(depends, pkgname, i + 1, found)

\* The value returned once the depends loop has run to its end.
NotRuntimeResult(found) == "false"

\* Variant: the line is printed inside the loop, once per entry that names
\* the package.
CheckOwnerPerEntry(obj, lib, pkgname, st) ==
    LET l == DependsLoop(st.depends, pkgname, 1, FALSE)
        n == Cardinality({j \in 1..Len(st.depends) : st.depends[j][3] = pkgname})
    IN  IF l.ret THEN [res |-> "true", out |-> <<>>]
        ELSE [res |-> "false",
              out |-> [k \in 1..n |-> Diag("notruntime", obj, lib, pkgname)]]

\* The tail of check_pkg for a path owned by pkgname.
CheckOwner(obj, lib, pkgname, st) ==
    LET l == DependsLoop(st.depends, pkgname, 1, FALSE)
    IN  IF l.ret THEN [res |-> "true", out |-> <<>>]
        ELSE [res |-> NotRuntimeResult(l.found),
              out |-> IF l.found
                      THEN <<Diag("notruntime", obj, lib, pkgname)>>
                      ELSE <<>>]

\* Variant: the early return reports failure.
PkgNotOwnedFails(db, n, entry) ==
    [called |-> TRUE, res |-> "false", out |-> <<>>, pkgdb |-> db,
     dumps |-> n, entry |-> entry, owner |-> <<>>]

\* No entry, or an entry that is None: not a pkgsrc path, return early.
PkgNotOwned(db, n, entry) ==
    [called |-> TRUE, res |-> "true", out |-> <<>>, pkgdb |-> db,
     dumps |-> n, entry |-> entry, owner |-> <<>>]

\* Variant: the output of the command is parsed whatever its exit status.
ExitedZeroOrNot(env) == env.admin \in {"ok", "nonzero"}

\* if let Some(0) = cmd.status.code()
ExitedZero(env) == env.admin = "ok"

\* check_pkg.  res is "true" / "false" for Ok(true) / Ok(false) and "err"
\* when the command could not be executed; entry is what the lookup of lib
\* found ("absent", "none", "some", or "unreached"); dumps counts the
\* invocations of the package-admin command.
CheckPkg(obj, lib, st, env) ==
    LET init == DOMAIN st.pkgdb = {}
        key == Components(lib)
    IN  IF init /\ env.admin = "nolaunch"
        THEN [called |-> TRUE, res |-> "err", out |-> <<>>, pkgdb |-> st.pkgdb,
              dumps |-> 1, entry |-> "unreached", owner |-> <<>>]
        ELSE
        LET db == IF init /\ ExitedZero(env)
                  THEN DumpLines(st.pkgdb, env.dump, 1)
                  ELSE st.pkgdb
            n == IF init THEN 1 ELSE 0
        IN  IF key \in DOMAIN db
            THEN IF db[key].some
                 THEN LET r == CheckOwner(obj, lib, db[key].pkg, st)
                      IN  [called |-> TRUE, res |-> r.res, out |-> r.out,
                           pkgdb |-> db, dumps |-> n, entry |-> "some",
                           owner |-> db[key].pkg]
                 ELSE PkgNotOwned(db, n, "none")
            ELSE PkgNotOwned(MapPut(db, key, NonePkg), n, "absent")

NoPkgCall(st) ==
    [called |-> FALSE, res |-> "true", out |-> <<>>, pkgdb |-> st.pkgdb,
     dumps |-> 0, entry |-> "unreached", owner |-> <<>>]


(***************************************************************************)
(* The existence cache (statlibs) in front of Path::exists                 *)
(***************************************************************************)

\* libpath.exists(): env.fs holds the components of every existing path
\* (paths without the root component are relative to the working directory).
Exists(libpath, env) == Components(libpath) \in env.fs

\* Variant: the file system is asked on every test.
StatLibUncached(libpath, st, env) ==
    LET key == Components(libpath)
        e == Exists(libpath, env)
    IN  [exists |-> e,
         st |-> [st EXCEPT !.statlibs = MapPut(@, key, e)],
         stats |-> <<key>>]

\* Variant: the cache records every looked-up path as existing.
StatLibCachesFound(libpath, st, env) ==
    LET key == Components(libpath)
    IN  IF key \in DOMAIN st.statlibs
        THEN [exists |-> st.statlibs[key], st |-> st, stats |-> <<>>]
        ELSE [exists |-> Exists(libpath, env),
              st |-> [st EXCEPT !.statlibs = MapPut(@, key, TRUE)],
              stats |-> <<key>>]

\* match state.statlibs.get(&libpath) { Some(e) => *e, None => { stat; insert } }
StatLib(libpath, st, env) ==
    LET key == Components(libpath)
    IN  IF key \in DOMAIN st.statlibs
        THEN [exists |-> st.statlibs[key], st |-> st, stats |-> <<>>]
        ELSE LET e == Exists(libpath, env)
             IN  [exists |-> e,
                  st |-> [st EXCEPT !.statlibs = MapPut(@, key, e)],
                  stats |-> <<key>>]

\* str::split(sep): the pieces between separators, empty pieces kept.
RECURSIVE SplitOn(_, _, _, _)
SplitOn(s, sep, i, cur) ==
    IF i > Len(s) THEN <<cur>>
    ELSE IF s[i] = sep
         THEN <<cur>> \o SplitOn(s, sep, i + 1, <<>>)
         ELSE SplitOn(s, sep, i + 1, Append(cur, s[i]))

\* Option<PathBuf> / Option<String>: <<>> is None, <<v>> is Some(v).
None == <<>>
Some(v) == <<v>>

(***************************************************************************)
(* ELF check_dso                                                           *)
(***************************************************************************)

\* elf.runpaths.first() split on ':'
ElfRunpathList(object) ==
    IF object.runpaths = <<>> THEN <<>>
    ELSE SplitOn(object.runpaths[1], ":", 1, <<>>)

\* One PLATFORM_RPATH entry under the cross prefix.
SysPathEntry(cross_prefix, p) == Push(cross_prefix, p)

\* System paths are prefixed with CROSS_DESTDIR, if set.
SystemPaths(cross_destdir, platform_rpath) ==
    IF platform_rpath = None THEN <<>>
    ELSE LET cross_prefix == IF cross_destdir = None THEN <<>>
                             ELSE cross_destdir[1]
             ps == SplitOn(platform_rpath[1], ":", 1, <<>>)
         IN  [i \in 1..Len(ps) |-> SysPathEntry(cross_prefix, ps[i])]

\* The syspath list check_dso builds for itself from the environment.
ElfSyspath(st, env) == SystemPaths(st.cross_destdir, env.platform_rpath)

\* The candidate of the RUNPATH loop.
RunpathCandidate(rpath, lib, st) == Push(rpath, lib)

\* The candidate of the DESTDIR loop.
DestdirCandidate(rpath, lib, st) ==
    Push(Push(st.destdir, IF IsAbsolute(rpath) THEN DropSeps(rpath) ELSE rpath),
         lib)

\* The candidate of the PLATFORM_RPATH loop.
SyspathCandidate(rpath, lib, st) == Push(rpath, lib)

\* One search loop: the first directory of dirs (from i on) whose candidate
\* exists, going through the existence cache.  stage is "runpath",
\* "destdir" or "syspath".
Candidate(stage, rpath, lib, st) ==
    IF stage = "runpath" THEN RunpathCandidate(rpath, lib, st)
    ELSE IF stage = "destdir" THEN DestdirCandidate(rpath, lib, st)
    ELSE SyspathCandidate(rpath, lib, st)

RECURSIVE SearchLoop(_, _, _, _, _, _, _)
SearchLoop(stage, dirs, i, lib, st, env, stats) ==
    IF i > Len(dirs)
    THEN [hit |-> FALSE, libpath |-> <<>>, st |-> st, stats |-> stats]
    ELSE LET libpath == Candidate(stage, dirs[i], lib, st)
             s == StatLib(libpath, st, env)
         IN  IF s.exists
             THEN [hit |-> TRUE, libpath |-> libpath, st |-> s.st,
                   stats |-> stats \o s.stats]
             ELSE SearchLoop(stage, dirs, i + 1, lib, s.st, env,
                             stats \o s.stats)

\* The record kept of one requirement: where it resolved, the validator
\* calls made for it, the lines it printed and the state it left.
Req(lib, stage, libpath, shlib, pkg, out, st, stats) ==
    [lib |-> lib, stage |-> stage, libpath |-> libpath, shlib |-> shlib,
     pkg |-> pkg, out |-> out, st |-> st, stats |-> stats]

\* Variant: the DESTDIR loop runs before the RUNPATH loop.
ElfStageOrderStagedFirst == <<"destdir", "runpath", "syspath">>

\* The order in which the body of 'nextlib runs its search loops.
ElfStageOrder == <<"runpath", "destdir", "syspath">>

\* Variant: a candidate of any stage but DESTDIR gets both validators.
ElfResolvedOwnsSyspath(path, lib, stage, hit, env) ==
    IF stage = "destdir"
    THEN Req(lib, stage, hit.libpath, NoShlibCall, NoPkgCall(hit.st), <<>>,
             hit.st, hit.stats)
    ELSE LET sh == ShlibCall(path, hit.libpath, hit.st)
             pk == CheckPkg(path, hit.libpath, hit.st, env)
         IN  Req(lib, stage, hit.libpath, sh, pk, sh.out \o pk.out,
                 [hit.st EXCEPT !.pkgdb = pk.pkgdb], hit.stats)

\* What is done with a candidate found by the loop of that stage.  check_dso
\* returns no value: the results of check_shlib and check_pkg, an Err of
\* check_pkg included, are dropped at the call.
ElfResolved(path, lib, stage, hit, env) ==
    IF stage = "runpath"
    THEN LET sh == ShlibCall(path, hit.libpath, hit.st)
             pk == CheckPkg(path, hit.libpath, hit.st, env)
         IN  Req(lib, stage, hit.libpath, sh, pk, sh.out \o pk.out,
                 [hit.st EXCEPT !.pkgdb = pk.pkgdb], hit.stats)
    ELSE IF stage = "destdir"
    THEN Req(lib, stage, hit.libpath, NoShlibCall, NoPkgCall(hit.st), <<>>,
             hit.st, hit.stats)
    ELSE LET sh == ShlibCall(path, hit.libpath, hit.st)
         IN  Req(lib, stage, hit.libpath, sh, NoPkgCall(hit.st), sh.out,
                 hit.st, hit.stats)

\* Variant: nothing is printed for a library that was not found.
ElfMissingSilent(path, lib, st, stats) ==
    Req(lib, "missing", <<>>, NoShlibCall, NoPkgCall(st), <<>>, st, stats)

\* If we're still here it wasn't found.
ElfMissing(path, lib, st, stats) ==
    Req(lib, "missing", <<>>, NoShlibCall, NoPkgCall(st),
        <<Diag("missing", path, lib, <<>>)>>, st, stats)

\* The body of 'nextlib for one library, from stage number k on.
RECURSIVE ElfStages(_, _, _, _, _, _, _, _)
ElfStages(path, lib, runpath, syspath, k, st, env, stats) ==
    IF k > Len(ElfStageOrder) THEN ElfMissing(path, lib, st, stats)
    ELSE LET stage == ElfStageOrder[k]
             dirs == IF stage = "syspath" THEN syspath ELSE runpath
             hit == SearchLoop(stage, dirs, 1, lib, st, env, stats)
         IN  IF hit.hit THEN ElfResolved(path, lib, stage, hit, env)
             ELSE ElfStages(path, lib, runpath, syspath, k + 1, hit.st, env,
                            hit.stats)

ElfLib(path, lib, runpath, syspath, st, env) ==
    ElfStages(path, lib, runpath, syspath, 1, st, env, <<>>)

\* 'nextlib: for lib in elf.libraries
\* Variant: the loop over the libraries ends at the first one that drew a
\* diagnostic line.
RECURSIVE ElfLibrariesStopAtFinding(_, _, _, _, _, _, _, _)
ElfLibrariesStopAtFinding(path, libs, i, runpath, syspath, st, env, reqs) ==
    IF i > Len(libs) \/ (reqs # <<>> /\ reqs[Len(reqs)].out # <<>>)
    THEN [st |-> st, reqs |-> reqs]
    ELSE LET r == ElfLib(path, libs[i], runpath, syspath, st, env)
         IN  ElfLibrariesStopAtFinding(path, libs, i + 1, runpath, syspath,
                                       r.st, env, Append(reqs, r))

\* for lib in elf.libraries
RECURSIVE ElfLibraries(_, _, _, _, _, _, _, _)
ElfLibraries(path, libs, i, runpath, syspath, st, env, reqs) ==
    IF i > Len(libs) THEN [st |-> st, reqs |-> reqs]
    ELSE LET r == ElfLib(path, libs[i], runpath, syspath, st, env)
         IN  ElfLibraries(path, libs, i + 1, runpath, syspath, r.st, env,
                          Append(reqs, r))

\* check_dso of elf.rs; Elf::parse fails on anything that is not ELF.
ElfCheckDso(path, object, st, env) ==
    IF object.format # "elf" THEN [st |-> st, reqs |-> <<>>]
    ELSE ElfLibraries(path, object.libraries, 1, ElfRunpathList(object),
                      ElfSyspath(st, env), st, env, <<>>)


(***************************************************************************)
(* Mach-O check_dso                                                        *)
(***************************************************************************)

\* The prefixes of system libraries ("/System/Library" and "/usr/lib" in
\* the source, written here over the model's alphabet).
SystemLibPrefixes == {<<"/", "S">>, <<"/", "u">>}

\* An entry that the loop passes over without looking at it.
MachoSkipped(lib, st) ==
    Req(lib, "skipped", <<>>, NoShlibCall, NoPkgCall(st), <<>>, st, <<>>)

\* Variant: the index of the first entry is taken to be 1.
MachoIsSelfOneBased(i) == i = 1

\* Always skip the first entry on macOS, "self".
MachoIsSelf(i) == i = 0

\* Skip system libraries if requested on newer macOS.
MachoIsSystem(lib, env) ==
    /\ env.skip_system_libs
    /\ \E pre \in SystemLibPrefixes : StrStartsWith(lib, pre)

\* Variant: the library path is pushed onto destdir as it is.
MachoDestdirCandidateUnstripped(lib, st) == Push(st.destdir, lib)

\* destdir joined with the library path less one leading "/".
MachoDestdirCandidate(lib, st) ==
    Push(st.destdir, IF Len(lib) > 0 /\ lib[1] = "/" THEN Tail(lib) ELSE lib)

\* The body of the loop for entry number i (0-based) of obj.libs.
MachoLib(path, i, lib, st, env) ==
    IF MachoIsSelf(i) THEN MachoSkipped(lib, st)
    ELSE IF MachoIsSystem(lib, env) THEN MachoSkipped(lib, st)
    ELSE
    LET staged == MachoDestdirCandidate(lib, st)
        s1 == StatLib(staged, st, env)
    IN  IF s1.exists
        THEN Req(lib, "destdir", staged, NoShlibCall, NoPkgCall(s1.st), <<>>,
                 s1.st, s1.stats)
        ELSE
        LET s2 == StatLib(lib, s1.st, env)
            stats == s1.stats \o s2.stats
        IN  IF s2.exists
            THEN LET sh == ShlibCall(path, lib, s2.st)
                     pk == CheckPkg(path, lib, s2.st, env)
                 IN  Req(lib, "direct", lib, sh, pk, sh.out \o pk.out,
                         [s2.st EXCEPT !.pkgdb = pk.pkgdb], stats)
            ELSE Req(lib, "missing", <<>>, NoShlibCall, NoPkgCall(s2.st),
                     <<Diag("missing", path, lib, <<>>)>>, s2.st, stats)

\* for (i, lib) in obj.libs.into_iter().enumerate()
RECURSIVE MachoLibraries(_, _, _, _, _, _)
MachoLibraries(path, libs, i, st, env, reqs) ==
    IF i >= Len(libs) THEN [st |-> st, reqs |-> reqs]
    ELSE LET r == MachoLib(path, i, libs[i + 1], st, env)
         IN  MachoLibraries(path, libs, i + 1, r.st, env, Append(reqs, r))

\* check_dso of macho.rs; Mach::parse fails on anything that is not Mach-O.
MachoCheckDso(path, object, st, env) ==
    IF object.format # "macho" THEN [st |-> st, reqs |-> <<>>]
    ELSE MachoLibraries(path, object.libraries, 0, st, env, <<>>)


(***************************************************************************)
(* The run: configuration, environment and input                           *)
(***************************************************************************)
VARIABLES
    target,     \* the platform the binary was built for: "elf" or "macho"
    env,        \* file system, package-admin command, optional environment
    state,      \* CheckState
    stdout,     \* the diagnostic lines printed so far
    stderr,     \* the objects reported unreadable so far
    nread,      \* lines of standard input consumed
    dumps,      \* invocations of the package-admin command so far
    last,       \* the last line read and what check_dso did for it
    pc,         \* "config", then "loop" while reading standard input, then
                \* "done"; "failed" when the configuration is rejected
    exit,       \* the exit status of the process (-1 while it runs)
    environ,    \* the environment variables run() requires or splits
    fetch,      \* the fetch command: its input, the distdir and its progress
    links,      \* the symlinks command
    cksum,      \* the checksum command
    race        \* two fetchers of one distfile in one distdir

vars ==
    <<target, env, state, stdout, stderr, nread, dumps, last, pc, exit, environ,
      fetch, links, cksum, race>>

\* The variables of check-shlibs and those of the other commands.
shlibvars ==
    <<target, env, state, stdout, stderr, nread, dumps, last, pc, exit, environ>>

toolvars == <<fetch, links, cksum, race>>

\* Lines of standard input a run reads at most.
MaxObjects == 2

\* Paths and names of the scenarios.
DirD == <<"/", "d">>
DirO == <<"/", "o">>
DirW == <<"/", "w">>
DirT == <<"/", "t">>
DirU == <<"/", "u">>
DirX == <<"/", "x">>
RelW == <<"w">>
LibL == <<"l">>
LibM == <<"m">>
LibS == <<"s">>
LibLT == <<"l", "t">>
PkgP == <<"P">>
PkgQ == <<"Q">>

\* The files of the installed system, and the same with staged copies.
FsInstalled ==
    {Components(Push(DirO, LibL)), Components(Push(DirW, LibL)),
     Components(Push(DirT, LibLT)), Components(Push(RelW, LibL)),
     Components(Push(DirU, LibS)), Components(Push(DirU, LibL))}

FsStaged ==
    FsInstalled \cup
    {Components(Push(Push(DirD, <<"o">>), LibL)),
     Components(Push(Push(DirD, <<"o">>), LibM)),
     Components(Push(Push(DirD, <<"t">>), LibLT)),
     Components(Push(Push(DirX, <<"u">>), LibS))}

\* A line of "pkg_admin dump".
DumpEntry(file, pkg) == FilePrefix \o file \o PkgMarker \o pkg

Dump ==
    << DumpEntry(Push(DirO, LibL), PkgP),
       <<"j", "u", "n", "k">>,
       DumpEntry(Push(DirW, LibL), PkgQ),
       DumpEntry(Push(DirT, LibLT), PkgP),
       DumpEntry(Push(DirU, LibS), PkgP) >>

\* A dump naming one file on two lines, with different packages.
DumpRepeated ==
    << DumpEntry(Push(DirO, LibL), PkgP),
       DumpEntry(Push(DirT, LibLT), PkgP),
       DumpEntry(Push(DirO, LibL), PkgQ) >>

\* A dump with a file whose path holds " pkg: " itself.
PathSpaced == Push(DirO, LibL) \o PkgMarker \o <<"z">>

DumpSpaced ==
    << DumpEntry(PathSpaced, PkgQ),
       <<"f", "i", "l", "e", ":", " ", "x">>,
       DumpEntry(Push(DirT, LibLT), PkgP) >>

\* What a successful "pkg_admin dump" may print.
DumpChoices == {Dump, DumpRepeated, DumpSpaced}

\* DEPENDS_FILE contents: (deptype, pkgmatch, pkg).
DependsChoices ==
    { <<>>,
      << <<"build", PkgP, PkgP>>, <<"tool", PkgP, PkgP>> >>,
      << <<"build", PkgP, PkgP>>, <<"full", PkgP, PkgP>>, <<"build", PkgQ, PkgQ>> >>,
      << <<"indirect-full", PkgP, PkgP>>, <<"build", PkgP, PkgP>> >> }

\* CHECK_WRKREF_EXTRA_DIRS and CHECK_SHLIBS_TOXIC: unset, or both set.
PolicyChoices ==
    { [wrkref |-> <<>>, toxic |-> <<>>],
      [wrkref |-> <<DirW, DirT, RelW>>,
       toxic |-> << [anchored |-> FALSE, lit |-> <<"l", ".">>],
                    [anchored |-> TRUE, lit |-> DirT],
                    [anchored |-> FALSE, lit |-> <<"w", "/">>] >>] }

\* CROSS_DESTDIR and PLATFORM_RPATH.
SysChoices ==
    { [cross |-> None, rpath |-> None],
      [cross |-> None, rpath |-> Some(DirU)],
      [cross |-> Some(DirX), rpath |-> Some(DirU \o <<":", "u">>)] }

\* The objects standard input can name.
Object(path, readable, format, runpaths, libraries) ==
    [path |-> path, readable |-> readable, format |-> format,
     runpaths |-> runpaths, libraries |-> libraries]

ElfObjects ==
    { Object(<<"/", "d", "/", "a">>, TRUE, "elf", <<DirO>>, <<LibL, LibM>>),
      Object(<<"/", "d", "/", "b">>, TRUE, "elf", <<DirW \o <<":">> \o DirO>>, <<LibL>>),
      Object(<<"/", "d", "/", "c">>, TRUE, "elf", <<DirT>>, <<LibLT>>),
      Object(<<"/", "d", "/", "e">>, TRUE, "elf", <<RelW>>, <<LibL>>),
      Object(<<"/", "d", "/", "f">>, TRUE, "elf", <<>>, <<LibS, LibM>>) }

MachoObjects ==
    { Object(<<"/", "d", "/", "g">>, TRUE, "macho", <<>>,
             <<Push(DirW, LibLT), Push(DirO, LibL), Push(DirO, LibM), Push(DirU, LibS)>>),
      Object(<<"/", "d", "/", "h">>, TRUE, "macho", <<>>,
             <<LibM, Push(DirW, LibL), Push(DirT, LibLT), Push(RelW, LibL)>>) }

OtherObjects ==
    { Object(<<"/", "d", "/", "n">>, FALSE, "other", <<>>, <<>>),
      Object(<<"/", "d", "/", "s">>, TRUE, "other", <<>>, <<>>) }

\* Every line standard input may carry for a build of the given target.
Objects ==
    OtherObjects \cup (IF target = "elf" THEN ElfObjects ELSE MachoObjects)

NoObject == Object(<<>>, FALSE, "other", <<>>, <<>>)

NoLast == [path |-> <<>>, object |-> NoObject, reqs |-> <<>>]

\* The environment of a run.  A variable is None when unset and Some(value)
\* when set.  PKG_ADMIN_CMD is held as the words split_whitespace yields,
\* the DEPENDS_FILE as whether it can be read and, per line, the fields
\* split_whitespace yields; the two optional lists are held split and
\* compiled, empty when the variable is unset.
Environ(destdir, cross, wrkdir, cmd, dependsfile, policy) ==
    [DESTDIR |-> destdir, CROSS_DESTDIR |-> cross, WRKDIR |-> wrkdir,
     PKG_ADMIN_CMD |-> cmd, DEPENDS_FILE |-> dependsfile,
     CHECK_SHLIBS_TOXIC |-> policy.toxic,
     CHECK_WRKREF_EXTRA_DIRS |-> policy.wrkref]

DependsFile(readable, lines) == [readable |-> readable, lines |-> lines]

PkgAdminCmd == <<"pkg_admin">>

\* An environment run() accepts.
ValidEnviron(sys, wrkdir, policy, depends) ==
    Environ(Some(DirD), Some(IF sys.cross = None THEN <<>> ELSE sys.cross[1]),
            Some(wrkdir), Some(PkgAdminCmd),
            Some(DependsFile(TRUE, depends)), policy)

BaseEnviron ==
    ValidEnviron([cross |-> None, rpath |-> None], DirW,
                 [wrkref |-> <<>>, toxic |-> <<>>], <<>>)

\* Environments with a required variable unset, a PKG_ADMIN_CMD without a
\* word, a DEPENDS_FILE that cannot be read, or a DEPENDS_FILE line that
\* does not have three fields.
BadEnvirons ==
    { [BaseEnviron EXCEPT !.DESTDIR = None],
      [BaseEnviron EXCEPT !.CROSS_DESTDIR = None],
      [BaseEnviron EXCEPT !.WRKDIR = None],
      [BaseEnviron EXCEPT !.PKG_ADMIN_CMD = None],
      [BaseEnviron EXCEPT !.PKG_ADMIN_CMD = Some(<<>>)],
      [BaseEnviron EXCEPT !.DEPENDS_FILE = None],
      [BaseEnviron EXCEPT !.DEPENDS_FILE = Some(DependsFile(FALSE, <<>>))],
      [BaseEnviron EXCEPT !.DEPENDS_FILE =
          Some(DependsFile(TRUE, << <<"build", PkgP, PkgP>>, <<"full", PkgP>> >>))],
      [BaseEnviron EXCEPT !.DEPENDS_FILE =
          Some(DependsFile(TRUE, << <<>> >>))],
      [BaseEnviron EXCEPT !.WRKDIR = None, !.DEPENDS_FILE = None] }

\* CROSS_DESTDIR: if s.is_empty() { None } else { Some(PathBuf::from(s)) }
CrossDestdir(s) == IF s = <<>> THEN None ELSE Some(s)

\* Variant: a DEPENDS_FILE that cannot be read counts as an empty one.
DependsFileErrorLenient(f) ==
    IF ~f.readable THEN ""
    ELSE IF \E i \in 1..Len(f.lines) : Len(f.lines[i]) # 3
    THEN "Bad DEPENDS_FILE input?"
    ELSE ""

\* fs::read_to_string(s)? and the check of every line; "" when all is well.
DependsFileError(f) ==
    IF ~f.readable THEN "Error: read_to_string"
    ELSE IF \E i \in 1..Len(f.lines) : Len(f.lines[i]) # 3
    THEN "Bad DEPENDS_FILE input?"
    ELSE ""

\* The first check of run() the environment fails, as the message written
\* to standard error; "" when the required configuration is accepted.
ConfigError(e) ==
    IF e.DESTDIR = None THEN "DESTDIR is mandatory"
    ELSE IF e.CROSS_DESTDIR = None
    THEN "CROSS_DESTDIR is mandatory (can be empty)"
    ELSE IF e.WRKDIR = None THEN "WRKDIR is mandatory"
    ELSE IF e.PKG_ADMIN_CMD = None THEN "PKG_ADMIN_CMD is mandatory"
    ELSE IF e.PKG_ADMIN_CMD[1] = <<>> THEN "Malformed PKG_ADMIN_CMD"
    ELSE IF e.DEPENDS_FILE = None THEN "DEPENDS_FILE is mandatory"
    ELSE DependsFileError(e.DEPENDS_FILE[1])

\* let mut state = CheckState { .. }
BuildState(e, platform_rpath) ==
    [cross_destdir |-> CrossDestdir(e.CROSS_DESTDIR[1]),
     destdir |-> e.DESTDIR[1],
     system_paths |-> SystemPaths(CrossDestdir(e.CROSS_DESTDIR[1]), platform_rpath),
     wrkdir |-> e.WRKDIR[1],
     wrkref |-> e.CHECK_WRKREF_EXTRA_DIRS,
     pkgdb |-> EmptyMap,
     depends |-> e.DEPENDS_FILE[1].lines,
     toxic |-> e.CHECK_SHLIBS_TOXIC,
     statlibs |-> EmptyMap]

\* The value of state before run() has built CheckState.
NoState ==
    [cross_destdir |-> None, destdir |-> <<>>, system_paths |-> <<>>,
     wrkdir |-> <<>>, wrkref |-> <<>>, pkgdb |-> EmptyMap, depends |-> <<>>,
     toxic |-> <<>>, statlibs |-> EmptyMap]

\* The process as main() starts run() of check-shlibs.
CheckShlibsInit ==
    /\ target \in {"elf", "macho"}
    /\ \E fs \in {FsInstalled, FsStaged},
          admin \in {"nolaunch", "nonzero", "ok"},
          sys \in SysChoices,
          skip \in BOOLEAN,
          wrkdir \in {DirW, RelW},
          policy \in PolicyChoices,
          dump \in DumpChoices,
          depends \in DependsChoices :
        /\ target = "macho" => sys.rpath = None
        /\ target = "elf" => ~skip
        /\ admin # "ok" => dump = Dump
        /\ env = [fs |-> fs, admin |-> admin, dump |-> dump,
                  platform_rpath |-> sys.rpath, skip_system_libs |-> skip]
        /\ \/ environ = ValidEnviron(sys, wrkdir, policy, depends)
           \/ /\ environ \in BadEnvirons
              /\ fs = FsInstalled /\ admin = "ok" /\ dump = Dump
              /\ sys = [cross |-> None, rpath |-> None] /\ ~skip
              /\ wrkdir = DirW /\ policy.toxic = <<>> /\ depends = <<>>
    /\ state = NoState
    /\ stdout = <<>>
    /\ stderr = <<>>
    /\ nread = 0
    /\ dumps = 0
    /\ last = NoLast
    /\ pc = "config"
    /\ exit = -1

\* run() accepts the configuration and builds CheckState.
Configure ==
    /\ pc = "config"
    /\ ConfigError(environ) = ""
    /\ state' = BuildState(environ, env.platform_rpath)
    /\ pc' = "loop"
    /\ UNCHANGED <<target, env, stdout, stderr, nread, dumps, last, exit, environ>>
    /\ UNCHANGED toolvars

\* run() rejects the configuration: eprintln! and exit(1), or Err from run().
ConfigFailed ==
    /\ pc = "config"
    /\ ConfigError(environ) # ""
    /\ stderr' = Append(stderr, <<ConfigError(environ)>>)
    /\ pc' = "failed"
    /\ exit' = 1
    /\ UNCHANGED <<target, env, state, stdout, nread, dumps, last, environ>>
    /\ UNCHANGED toolvars

\* Variant: the lines of an object are held back and printed last
\* requirement first.
RECURSIVE ReqsOutReversed(_, _)
ReqsOutReversed(reqs, i) ==
    IF i > Len(reqs) THEN <<>> ELSE ReqsOutReversed(reqs, i + 1) \o reqs[i].out

\* The lines printed by a sequence of requirement records, in order.
RECURSIVE ReqsOut(_, _)
ReqsOut(reqs, i) ==
    IF i > Len(reqs) THEN <<>> ELSE reqs[i].out \o ReqsOut(reqs, i + 1)

RECURSIVE ReqsDumps(_, _)
ReqsDumps(reqs, i) ==
    IF i > Len(reqs) THEN 0 ELSE reqs[i].pkg.dumps + ReqsDumps(reqs, i + 1)

\* What the loop of run() does with the result of check_dso.
AfterCheckDso(o, r) ==
    /\ state' = r.st
    /\ stdout' = stdout \o ReqsOut(r.reqs, 1)
    /\ dumps' = dumps + ReqsDumps(r.reqs, 1)
    /\ last' = [path |-> o.path, object |-> o, reqs |-> r.reqs]
    /\ nread' = nread + 1
    /\ UNCHANGED <<target, env, stderr, pc, exit, environ>>
    /\ UNCHANGED toolvars

\* A line naming a readable file, on an ELF platform.
CheckElf ==
    /\ pc = "loop"
    /\ nread < MaxObjects
    /\ target = "elf"
    /\ \E o \in Objects :
        /\ o.readable
        /\ AfterCheckDso(o, ElfCheckDso(o.path, o, state, env))

\* A line naming a readable file, on macOS.
CheckMacho ==
    /\ pc = "loop"
    /\ nread < MaxObjects
    /\ target = "macho"
    /\ \E o \in Objects :
        /\ o.readable
        /\ AfterCheckDso(o, MachoCheckDso(o.path, o, state, env))

\* A line naming a file fs::read fails on: Err(e) => eprintln!
ReadFailed ==
    /\ pc = "loop"
    /\ nread < MaxObjects
    /\ \E o \in Objects :
        /\ ~o.readable
        /\ stderr' = Append(stderr, o.path)
        /\ last' = [path |-> o.path, object |-> o, reqs |-> <<>>]
        /\ nread' = nread + 1
        /\ UNCHANGED <<target, env, state, stdout, dumps, pc, exit, environ>>
        /\ UNCHANGED toolvars

\* Variant: the findings printed decide the value returned.
RunResultCountsFindings(out) == IF out = <<>> THEN 0 ELSE 1

\* The value run() returns after the loop: Ok(0).
RunResult(out) == 0

\* End of standard input.
Eof ==
    /\ pc = "loop"
    /\ pc' = "done"
    /\ exit' = RunResult(stdout)
    /\ UNCHANGED <<target, env, state, stdout, stderr, nread, dumps, last, environ>>
    /\ UNCHANGED toolvars

(***************************************************************************)
(* fetch: one input line "filepath distdir [site ...]"                     *)
(***************************************************************************)

\* Sites an input line names at most.
MaxSites == 2

\* What a file holds: "absent" when there is no such file, "good" for the
\* content distinfo records, "bad" for content of the recorded size with
\* another checksum, "short" for content of another size.
Contents == {"good", "bad", "short"}

\* What a site does when asked for the file: the URL does not parse, the
\* connection fails, the server refuses (a status that is not success, a
\* failed RETR), the transfer breaks after the temporary file was created,
\* or the transfer completes with good or bad content.
SiteOutcomes == {"badurl", "connect", "refused", "partial", "good", "bad"}

Site(scheme, outcome) == [scheme |-> scheme, outcome |-> outcome]

Sites == {Site(sc, o) : sc \in {"http", "ftp"}, o \in SiteOutcomes}

RECURSIVE SeqsUpTo(_, _)
SeqsUpTo(S, n) ==
    IF n = 0 THEN {<<>>}
    ELSE LET shorter == SeqsUpTo(S, n - 1)
         IN  shorter \cup {Append(q, x) : q \in {r \in shorter : Len(r) = n - 1}, x \in S}

\* The distdir: the final path of the distfile and this call's temporary
\* file "<name>.<ext>.mktool.<pid>.<counter>" next to it.
Distdir(final, temp) == [final |-> final, temp |-> temp]

\* The lines written to standard error.
UnableToFetch == "Unable to fetch"
VerificationFailed == "Verification failed"
FailedToRemove == "Failed to remove"

\* if let Err(e) = fs::remove_file(&temp_name) { eprintln!(..) }
RemoveTemp(f) ==
    IF f.fs.temp = "absent"
    THEN [f EXCEPT !.err = Append(@, FailedToRemove)]
    ELSE [f EXCEPT !.fs.temp = "absent"]

\* Variant: only the size of the file is compared.
ChecksumFailsOnSizeOnly(distinfo, content) ==
    distinfo = "entry" /\ content = "short"

\* entry.verify_checksums(&temp_name) yields an Err: distinfo was given, it
\* has an entry for the file, and the content does not match it.
ChecksumFails(distinfo, content) == distinfo = "entry" /\ content # "good"

\* rename_to_final
RenameToFinal(f) ==
    IF f.fs.final # "absent"
    THEN [RemoveTemp(f) EXCEPT !.pc = "returned", !.result = "ok"]
    ELSE [f EXCEPT !.fs = Distdir(f.fs.temp, "absent"),
                   !.pc = "returned", !.result = "ok"]

\* A checksum does not match: eprintln!, remove the temporary file,
\* continue 'nextsite.
VerifyFailed(f) ==
    [RemoveTemp([f EXCEPT !.err = Append(@, VerificationFailed)]) EXCEPT !.i = @ + 1]

\* The transfer wrote the whole body to the temporary file.
Downloaded(f, content) ==
    LET g == [f EXCEPT !.fs.temp = content]
    IN  IF ChecksumFails(f.job.distinfo, content)
        THEN VerifyFailed(g)
        ELSE RenameToFinal(g)

\* Url::parse(&url)? and client.get / File::create / copy_to with ?
ReturnErr(f) == [f EXCEPT !.pc = "returned", !.result = "err"]

\* One turn of the 'nextsite loop for an ftp URL.
FtpSite(f, outcome) ==
    IF outcome \in {"good", "bad"} THEN Downloaded(f, outcome)
    ELSE LET g == IF outcome = "partial" THEN [f EXCEPT !.fs.temp = "short"] ELSE f
         IN  [RemoveTemp([g EXCEPT !.err = Append(@, UnableToFetch)]) EXCEPT !.i = @ + 1]

\* One turn of the 'nextsite loop for any other URL.
HttpSite(f, outcome) ==
    IF outcome \in {"good", "bad"} THEN Downloaded(f, outcome)
    ELSE IF outcome = "partial" THEN ReturnErr([f EXCEPT !.fs.temp = "short"])
    ELSE [f EXCEPT !.err = Append(@, UnableToFetch), !.i = @ + 1]

\* One turn of the 'nextsite loop.
SiteStep(f, site) ==
    IF site.outcome = "badurl" THEN ReturnErr(f)
    ELSE IF site.scheme = "ftp" THEN FtpSite(f, site.outcome)
    ELSE HttpSite(f, site.outcome)

\* fetch_and_verify up to the 'nextsite loop: an existing file of the
\* recorded size (or any existing file when no distinfo was given) is
\* kept, another existing file is removed.
BeginFetch(f) ==
    IF f.fs.final # "absent" /\ (f.job.distinfo = "none" \/ f.fs.final # "short")
    THEN [f EXCEPT !.pc = "returned", !.result = "ok"]
    ELSE [f EXCEPT !.fs.final = "absent", !.pc = "sites", !.i = 1,
                   !.out = Append(@, "Fetching")]

\* The input line, the -f option and the distdir a run starts with.
FetchJob(sites, distinfo, initial) ==
    [sites |-> sites, distinfo |-> distinfo, initial |-> initial]

\* The fetch command is not the one running.
NoFetch ==
    [pc |-> "off", job |-> FetchJob(<<>>, "none", "absent"),
     fs |-> Distdir("absent", "absent"), i |-> 0, result |-> "none",
     err |-> <<>>, out |-> <<>>, rv |-> -1]

\* run() has read its input.  An existing file is considered with no
\* distinfo or with a distinfo that has an entry for it.
FetchInit ==
    \E sites \in SeqsUpTo(Sites, MaxSites),
       distinfo \in {"none", "noentry", "entry"},
       initial \in Contents \cup {"absent"} :
        /\ initial # "absent" => distinfo # "noentry"
        /\ fetch = [NoFetch EXCEPT !.pc = "start",
                                   !.job = FetchJob(sites, distinfo, initial),
                                   !.fs = Distdir(initial, "absent")]

FetchStart ==
    /\ fetch.pc = "start"
    /\ fetch' = BeginFetch(fetch)
    /\ UNCHANGED <<shlibvars, links, cksum, race>>

FetchSite ==
    /\ fetch.pc = "sites"
    /\ fetch.i <= Len(fetch.job.sites)
    /\ fetch' = SiteStep(fetch, fetch.job.sites[fetch.i])
    /\ UNCHANGED <<shlibvars, links, cksum, race>>

\* No site is left: remove the temporary file, Err(FetchError::NotFound).
FetchNotFound ==
    /\ fetch.pc = "sites"
    /\ fetch.i > Len(fetch.job.sites)
    /\ fetch' = ReturnErr(RemoveTemp(fetch))
    /\ UNCHANGED <<shlibvars, links, cksum, race>>

\* run() after the workers: rv = 1 if any file's status is false.
FetchExit ==
    /\ fetch.pc = "returned"
    /\ fetch' = [fetch EXCEPT !.pc = "exit",
                              !.rv = IF fetch.result = "err" THEN 1 ELSE 0]
    /\ UNCHANGED <<shlibvars, links, cksum, race>>


(***************************************************************************)
(* fetch: two fetch_and_verify calls for one distfile in one distdir,      *)
(* threads of one process or two processes.  A step is one access to the   *)
(* final path together with the work on the caller's own temporary file    *)
(* that precedes it.                                                       *)
(***************************************************************************)
Fetchers == {1, 2}

\* "<name>.<ext>.mktool.<pid>.<counter>", and the value before it is set.
TempName(pid, counter) == <<pid, counter>>
NoTemp == <<0, 0>>
TempNames == {TempName(pid, c) : pid \in Fetchers, c \in 0..(Cardinality(Fetchers) - 1)}

\* process::id(): threads share the pid, processes do not.
Pid(r, p) == IF r.mode = "threads" THEN 1 ELSE p

\* A call that has not started.
NewFetcher ==
    [pc |-> "start", i |-> 0, temp |-> NoTemp, result |-> "none", fetched |-> FALSE]

\* No pair of fetchers is running.
NoRace ==
    [pc |-> "off", mode |-> "threads", distinfo |-> "none", initial |-> "absent",
     nsites |-> 0, final |-> "absent",
     temps |-> [n \in TempNames |-> "absent"],
     counter |-> [pid \in Fetchers |-> 0],
     w |-> [p \in Fetchers |-> NewFetcher],
     done |-> <<>>]

\* FETCH_COUNTER.fetch_add(1, Relaxed) and the name built from it; the call
\* goes on to the 'nextsite loop.
TakeName(r, p) ==
    LET pid == Pid(r, p)
    IN  [r EXCEPT !.counter[pid] = @ + 1,
                  !.w[p].temp = TempName(pid, r.counter[pid]),
                  !.w[p].pc = "sites", !.w[p].i = 1]

\* fetch_and_verify returns; done lists the calls in the order they return.
RaceReturn(r, p, result) ==
    [r EXCEPT !.w[p].pc = "returned", !.w[p].result = result, !.done = Append(@, p)]

\* if file_name.exists(): keep a file of the recorded size (any file when
\* no distinfo was given), else go on to remove it.
RaceBegin(r, p) ==
    IF r.final = "absent" THEN TakeName(r, p)
    ELSE IF r.distinfo = "none" \/ r.final # "short" THEN RaceReturn(r, p, "ok")
    ELSE [r EXCEPT !.w[p].pc = "unlink"]

\* fs::remove_file(&file_name)?
RaceRemoveFinal(r, p) ==
    IF r.final = "absent" THEN RaceReturn(r, p, "err")
    ELSE TakeName([r EXCEPT !.final = "absent"], p)

WriteTemp(r, p, content) == [r EXCEPT !.temps[r.w[p].temp] = content]

\* fs::remove_file(&temp_name); a failure is only printed.
DropTemp(r, p) == [r EXCEPT !.temps[r.w[p].temp] = "absent"]

\* continue 'nextsite
NextSite(r, p) == [r EXCEPT !.w[p].i = @ + 1]

\* The body was written to the temporary file: verify, then rename_to_final.
RaceDownloaded(r, p, content) ==
    LET g == WriteTemp(r, p, content)
    IN  IF ChecksumFails(r.distinfo, content)
        THEN NextSite(DropTemp(g, p), p)
        ELSE [g EXCEPT !.w[p].pc = "rename", !.w[p].fetched = TRUE]

\* One turn of the 'nextsite loop.
RaceSiteStep(r, p, site) ==
    IF site.outcome = "badurl" THEN RaceReturn(r, p, "err")
    ELSE IF site.outcome \in {"good", "bad"} THEN RaceDownloaded(r, p, site.outcome)
    ELSE IF site.scheme = "ftp"
    THEN NextSite(DropTemp(IF site.outcome = "partial"
                           THEN WriteTemp(r, p, "short") ELSE r, p), p)
    ELSE IF site.outcome = "partial"
    THEN RaceReturn(WriteTemp(r, p, "short"), p, "err")
    ELSE NextSite(r, p)

\* rename_to_final: if final_path.exists() { remove_file(temp) }
RaceRenameCheck(r, p) ==
    IF r.final # "absent"
    THEN [DropTemp(r, p) EXCEPT !.w[p].pc = "len"]
    ELSE [r EXCEPT !.w[p].pc = "move"]

\* fs::rename(temp, final_path)?: replaces whatever the final path names.
RaceRenameTemp(r, p) ==
    [DropTemp(r, p) EXCEPT !.final = r.temps[r.w[p].temp], !.w[p].pc = "len"]

\* Ok(final_path.metadata()?.len())
RaceMetadata(r, p) ==
    RaceReturn(r, p, IF r.final = "absent" THEN "err" ELSE "ok")

\* Two calls for the same input line start; the distdir may hold the file.
RaceInit ==
    \E mode \in {"threads", "processes"},
       distinfo \in {"none", "entry"},
       initial \in Contents \cup {"absent"},
       nsites \in 0..MaxSites :
        race = [NoRace EXCEPT !.pc = "run", !.mode = mode, !.distinfo = distinfo,
                              !.initial = initial, !.final = initial,
                              !.nsites = nsites]

RaceStep(p, next) ==
    /\ race.pc = "run"
    /\ race' = next
    /\ UNCHANGED <<shlibvars, fetch, links, cksum>>

RaceStart ==
    \E p \in Fetchers :
        /\ race.w[p].pc = "start"
        /\ RaceStep(p, RaceBegin(race, p))

RaceUnlink ==
    \E p \in Fetchers :
        /\ race.w[p].pc = "unlink"
        /\ RaceStep(p, RaceRemoveFinal(race, p))

RaceSite ==
    \E p \in Fetchers, site \in Sites :
        /\ race.w[p].pc = "sites"
        /\ race.w[p].i <= race.nsites
        /\ RaceStep(p, RaceSiteStep(race, p, site))

\* No site is left: remove the temporary file, Err(FetchError::NotFound).
RaceNotFound ==
    \E p \in Fetchers :
        /\ race.w[p].pc = "sites"
        /\ race.w[p].i > race.nsites
        /\ RaceStep(p, RaceReturn(DropTemp(race, p), p, "err"))

RaceRename ==
    \E p \in Fetchers :
        /\ race.w[p].pc = "rename"
        /\ RaceStep(p, RaceRenameCheck(race, p))

RaceMove ==
    \E p \in Fetchers :
        /\ race.w[p].pc = "move"
        /\ RaceStep(p, RaceRenameTemp(race, p))

RaceLen ==
    \E p \in Fetchers :
        /\ race.w[p].pc = "len"
        /\ RaceStep(p, RaceMetadata(race, p))


(***************************************************************************)
(* symlinks: lines "link -> original" on standard input                    *)
(***************************************************************************)

\* Lines of standard input a run reads at most.
MaxLines == 3

\* The paths of the working directory, as their components.
LinkPaths == {<<"a">>, <<"b">>, <<"a", "b">>, <<"a", "b", "c">>}

\* What a path names.
NoNode == [kind |-> "none", target |-> ""]
DirNode == [kind |-> "dir", target |-> ""]
FileNode == [kind |-> "file", target |-> ""]
SymlinkNode(original) == [kind |-> "symlink", target |-> original]

\* The originals named by the input; none of them exists.
Originals == {"x", "y"}

\* A line with exactly one " -> ", split and trimmed, or any other line.
LinkLine(link, original) == [valid |-> TRUE, link |-> link, original |-> original]
OtherLine == [valid |-> FALSE, link |-> <<>>, original |-> ""]
LinkLines == {LinkLine(l, o) : l \in LinkPaths, o \in Originals} \cup {OtherLine}

\* Path::parent
Parent(path) == SubSeq(path, 1, Len(path) - 1)

EmptyDir == [q \in LinkPaths |-> NoNode]

\* The working directory before the run.
InitialDirs ==
    { EmptyDir,
      [EmptyDir EXCEPT ![<<"a">>] = SymlinkNode("x")],
      [EmptyDir EXCEPT ![<<"a">>] = FileNode],
      [EmptyDir EXCEPT ![<<"a">>] = DirNode],
      [EmptyDir EXCEPT ![<<"a">>] = DirNode, ![<<"a", "b">>] = SymlinkNode("y")],
      [EmptyDir EXCEPT ![<<"a">>] = DirNode, ![<<"a", "b">>] = DirNode] }

\* fs::create_dir_all(dir): every missing component is created from the top
\* down; a component that exists and is not a directory is an error (the
\* originals do not exist, so a symlink in the way does not lead to one).
RECURSIVE CreateDirAll(_, _, _)
CreateDirAll(dirs, dir, n) ==
    IF n > Len(dir) THEN [ok |-> TRUE, dirs |-> dirs]
    ELSE LET q == SubSeq(dir, 1, n)
         IN  IF dirs[q].kind = "none"
             THEN CreateDirAll([dirs EXCEPT ![q] = DirNode], dir, n + 1)
             ELSE IF dirs[q].kind = "dir"
             THEN CreateDirAll(dirs, dir, n + 1)
             ELSE [ok |-> FALSE, dirs |-> dirs]

\* Variant: the destination is left in place.
RemoveFileKeeps(dirs, path) == dirs

\* let _ = fs::remove_file(&link): unlinks a file or a symlink; fails, and
\* is ignored, when nothing is there or a directory is.
RemoveFile(dirs, path) ==
    IF dirs[path].kind \in {"file", "symlink"}
    THEN [dirs EXCEPT ![path] = NoNode]
    ELSE dirs

\* unix::fs::symlink(original, link): fails when link exists.
MakeSymlink(dirs, original, link) ==
    IF dirs[link].kind # "none"
    THEN [ok |-> FALSE, dirs |-> dirs]
    ELSE [ok |-> TRUE, dirs |-> [dirs EXCEPT ![link] = SymlinkNode(original)]]

\* The body of the loop for one line with a link and an original.
DoLink(dirs, line) ==
    LET made == CreateDirAll(dirs, Parent(line.link), 1)
    IN  IF ~made.ok THEN made
        ELSE MakeSymlink(RemoveFile(made.dirs, line.link), line.original, line.link)

\* The symlinks command is not the one running.
NoLinks ==
    [pc |-> "off", input |-> <<>>, initial |-> EmptyDir, dirs |-> EmptyDir,
     i |-> 0, rv |-> -1]

LinksInit ==
    \E input \in SeqsUpTo(LinkLines, MaxLines), initial \in InitialDirs :
        links = [NoLinks EXCEPT !.pc = "loop", !.input = input,
                                !.initial = initial, !.dirs = initial, !.i = 1]

\* A line that does not split in two around " -> ": continue.
LinksSkip ==
    /\ links.pc = "loop"
    /\ links.i <= Len(links.input)
    /\ ~links.input[links.i].valid
    /\ links' = [links EXCEPT !.i = @ + 1]
    /\ UNCHANGED <<shlibvars, fetch, cksum, race>>

\* A line naming a link and an original, and the link is made.
LinksLink ==
    /\ links.pc = "loop"
    /\ links.i <= Len(links.input)
    /\ links.input[links.i].valid
    /\ DoLink(links.dirs, links.input[links.i]).ok
    /\ links' = [links EXCEPT !.i = @ + 1,
                              !.dirs = DoLink(links.dirs, links.input[links.i]).dirs]
    /\ UNCHANGED <<shlibvars, fetch, cksum, race>>

\* create_dir_all or symlink fails: run() returns the error through ? and
\* main() ends with a failure status.
LinksError ==
    /\ links.pc = "loop"
    /\ links.i <= Len(links.input)
    /\ links.input[links.i].valid
    /\ ~DoLink(links.dirs, links.input[links.i]).ok
    /\ links' = [links EXCEPT !.pc = "exit", !.rv = 1,
                              !.dirs = DoLink(links.dirs, links.input[links.i]).dirs]
    /\ UNCHANGED <<shlibvars, fetch, cksum, race>>

\* End of standard input: Ok(0).
LinksEof ==
    /\ links.pc = "loop"
    /\ links.i > Len(links.input)
    /\ links' = [links EXCEPT !.pc = "exit", !.rv = 0]
    /\ UNCHANGED <<shlibvars, fetch, cksum, race>>


(***************************************************************************)
(* checksum: verify command-line files against a distinfo file             *)
(***************************************************************************)

\* Files named on the command line at most.
MaxFiles == 2

\* The largest value given with -j.
MaxJobs == 1

\* let default_threads = 4
DefaultThreads == 4

\* -j N, or without it MKTOOL_JOBS, or without both the default.
JobsChoices == {None} \cup {Some(n) : n \in 0..MaxJobs}

MaxThreads(jobs) == IF jobs = None THEN DefaultThreads ELSE jobs[1]

\* File names, and the suffix given with -s.
NameF == <<"f">>
NameG == <<"g">>
SuffixS == <<".", "s">>
NameFS == NameF \o SuffixS
CksumNames == {NameF, NameFS, NameG}

\* The hash a digest computes for content, the hash field of a Checksum
\* that has not been calculated (String::new()), and a legacy entry.
HashOf(alg, content) == <<alg, content>>
EmptyHash == <<>>
IgnoreHash == <<"IGNORE">>

\* A line "alg (file) = hash" of distinfo below its two header lines.
DiLine(alg, file, hash) == [alg |-> alg, file |-> file, hash |-> hash]

\* distinfo files: readable or not, and the lines held.
DistinfoChoices ==
    { [readable |-> FALSE, lines |-> <<>>],
      [readable |-> TRUE, lines |-> <<>>],
      [readable |-> TRUE, lines |->
          << DiLine("SHA512", NameF, HashOf("SHA512", "c1")),
             DiLine("Size", NameF, <<"Size", "c1">>),
             DiLine("BLAKE2s", NameF, HashOf("BLAKE2s", "c1")) >>],
      [readable |-> TRUE, lines |->
          << DiLine("BLAKE2s", NameG, HashOf("BLAKE2s", "c1")),
             DiLine("SHA512", NameF, HashOf("SHA512", "c1")),
             DiLine("SHA512", NameG, IgnoreHash),
             DiLine("BLAKE2s", NameF, HashOf("BLAKE2s", "c1")) >>] }

\* The files on disk: the content of each, "absent" when there is none.
DiskChoices ==
    { [n \in CksumNames |-> "c1"],
      [n \in CksumNames |-> IF n = NameFS THEN "c2" ELSE "c1"],
      [n \in CksumNames |-> IF n = NameF THEN "c2" ELSE "c1"],
      [n \in CksumNames |-> IF n = NameG THEN "absent" ELSE "c1"] }

\* str::strip_suffix, falling back to the name itself.
StripSuffix(name, stripsuffix) ==
    IF stripsuffix = None THEN name
    ELSE LET suf == stripsuffix[1]
             n == Len(name) - Len(suf)
         IN  IF n >= 0 /\ SubSeq(name, n + 1, Len(name)) = suf
             THEN SubSeq(name, 1, n)
             ELSE name

\* Distfile { filepath, processed: false, ..Default::default() }
Distfile(filepath) == [filepath |-> filepath, hashes |-> <<>>, processed |-> FALSE]

\* for file in &self.files: distfiles.insert(stripped name, Distfile)
RECURSIVE CollectFiles(_, _, _, _)
CollectFiles(m, files, stripsuffix, i) ==
    IF i > Len(files) THEN m
    ELSE CollectFiles(MapPut(m, StripSuffix(files[i], stripsuffix), Distfile(files[i])),
                      files, stripsuffix, i + 1)

\* One line of the first pass over distinfo; st holds distfiles and di_lines.
DistinfoLine(st, line, algorithm) ==
    IF line.alg = "Size" \/ line.hash = IgnoreHash THEN st
    ELSE IF line.file \notin DOMAIN st.distfiles THEN st
    ELSE IF algorithm # None /\ line.alg # algorithm[1] THEN st
    ELSE [distfiles |->
              [st.distfiles EXCEPT ![line.file] =
                  [@ EXCEPT !.hashes = Append(@, [digest |-> line.alg, hash |-> EmptyHash]),
                            !.processed = TRUE]],
          di_lines |-> Append(st.di_lines, line)]

RECURSIVE DistinfoLines(_, _, _, _)
DistinfoLines(st, lines, algorithm, i) ==
    IF i > Len(lines) THEN st
    ELSE DistinfoLines(DistinfoLine(st, lines[i], algorithm), lines, algorithm, i + 1)

\* Distfile::calculate for one entry; a file that cannot be opened leaves
\* the hashes as they were, and the error is dropped.
Calculate(d, disk) ==
    IF disk[d.filepath] = "absent" THEN d
    ELSE LET hs == d.hashes
         IN  [d EXCEPT !.hashes =
                 [j \in 1..Len(hs) |->
                     [digest |-> hs[j].digest,
                      hash |-> HashOf(hs[j].digest, disk[d.filepath])]]]

\* "Convert distfiles back into a HashMap": keyed by filepath.file_name().
Rekey(m) ==
    [n \in {m[k].filepath : k \in DOMAIN m} |->
        m[CHOOSE k \in DOMAIN m : m[k].filepath = n]]

\* The lines printed.
ChecksumOk(alg, file) == [msg |-> "=> Checksum OK", alg |-> alg, file |-> file]
ChecksumMismatch(alg, file) == [msg |-> "Checksum mismatch", alg |-> alg, file |-> file]
NoChecksum(algorithm, file) ==
    [msg |-> "No checksum recorded",
     alg |-> IF algorithm = None THEN "" ELSE algorithm[1], file |-> file]

\* The pass over di_lines: a line whose file is not in the map is passed
\* over, a match prints, the first mismatch returns Ok(1).
RECURSIVE ReportLines(_, _, _, _)
ReportLines(m, di_lines, i, out) ==
    IF i > Len(di_lines) THEN [out |-> out, err |-> <<>>, rv |-> 0]
    ELSE LET l == di_lines[i]
         IN  IF l.file \notin DOMAIN m THEN ReportLines(m, di_lines, i + 1, out)
             ELSE IF \E j \in 1..Len(m[l.file].hashes) :
                        /\ m[l.file].hashes[j].digest = l.alg
                        /\ m[l.file].hashes[j].hash = l.hash
             THEN ReportLines(m, di_lines, i + 1, Append(out, ChecksumOk(l.alg, l.file)))
             ELSE [out |-> out, err |-> <<ChecksumMismatch(l.alg, l.file)>>, rv |-> 1]

\* The keys of the entries no distinfo line marked.
Unprocessed(m) == {k \in DOMAIN m : ~m[k].processed}

\* The sequences that list every element of S once.
Orderings(S) ==
    {q \in SeqsUpTo(S, Cardinality(S)) :
        Len(q) = Cardinality(S) /\ \A x \in S : \E j \in 1..Len(q) : q[j] = x}

\* The checksum command is not the one running.
NoCksum ==
    [pc |-> "off", stripsuffix |-> None, algorithm |-> None, files |-> <<>>,
     distinfo |-> [readable |-> FALSE, lines |-> <<>>],
     disk |-> [n \in CksumNames |-> "absent"],
     distfiles |-> EmptyMap, di_lines |-> <<>>, out |-> <<>>, err |-> <<>>,
     rv |-> -1, jobs |-> None, active |-> 0, workers |-> EmptyMap]

CksumInit ==
    \E stripsuffix \in {None, Some(SuffixS)},
       algorithm \in {None, Some("SHA512")},
       files \in SeqsUpTo(CksumNames, MaxFiles),
       distinfo \in DistinfoChoices,
       disk \in DiskChoices,
       jobs \in JobsChoices :
        cksum = [NoCksum EXCEPT !.pc = "files", !.stripsuffix = stripsuffix,
                                !.algorithm = algorithm, !.files = files,
                                !.distinfo = distinfo, !.disk = disk,
                                !.jobs = jobs]

\* The loop over the files of the command line.
CksumFiles ==
    /\ cksum.pc = "files"
    /\ cksum' = [cksum EXCEPT
                    !.pc = "distinfo",
                    !.distfiles = CollectFiles(EmptyMap, cksum.files, cksum.stripsuffix, 1)]
    /\ UNCHANGED <<shlibvars, fetch, links, race>>

\* fs::read(&self.distinfo) fails: return Ok(3).
CksumNoDistinfo ==
    /\ cksum.pc = "distinfo"
    /\ ~cksum.distinfo.readable
    /\ cksum' = [cksum EXCEPT !.pc = "exit", !.rv = 3,
                              !.err = <<[msg |-> "Could not open distinfo",
                                         alg |-> "", file |-> <<>>]>>]
    /\ UNCHANGED <<shlibvars, fetch, links, race>>

\* The first pass over distinfo.
CksumDistinfo ==
    /\ cksum.pc = "distinfo"
    /\ cksum.distinfo.readable
    /\ LET st == DistinfoLines([distfiles |-> cksum.distfiles, di_lines |-> <<>>],
                               cksum.distinfo.lines, cksum.algorithm, 1)
       IN  cksum' = [cksum EXCEPT !.pc = "calculate",
                                  !.distfiles = st.distfiles,
                                  !.di_lines = st.di_lines,
                                  !.workers = [k \in DOMAIN st.distfiles |-> "waiting"]]
    /\ UNCHANGED <<shlibvars, fetch, links, race>>

\* if *active < max_threads
SlotFree(active, max_threads) == active < max_threads

\* The dispatch loop gets a slot for the next entry of di_vec (the order is
\* the HashMap's) and spawns its thread.  While no slot is free the loop
\* only yields, which changes nothing.
CksumSpawn ==
    /\ cksum.pc = "calculate"
    /\ SlotFree(cksum.active, MaxThreads(cksum.jobs))
    /\ \E k \in DOMAIN cksum.workers :
        /\ cksum.workers[k] = "waiting"
        /\ cksum' = [cksum EXCEPT !.active = @ + 1, !.workers[k] = "running"]
    /\ UNCHANGED <<shlibvars, fetch, links, race>>

\* A thread: d.calculate(), the result dropped.
CksumWorker ==
    /\ cksum.pc = "calculate"
    /\ \E k \in DOMAIN cksum.workers :
        /\ cksum.workers[k] = "running"
        /\ cksum' = [cksum EXCEPT
                        !.distfiles[k] = Calculate(cksum.distfiles[k], cksum.disk),
                        !.workers[k] = "calculated"]
    /\ UNCHANGED <<shlibvars, fetch, links, race>>

\* A thread: *active -= 1, and the thread ends.
CksumRelease ==
    /\ cksum.pc = "calculate"
    /\ \E k \in DOMAIN cksum.workers :
        /\ cksum.workers[k] = "calculated"
        /\ cksum' = [cksum EXCEPT !.active = @ - 1, !.workers[k] = "finished"]
    /\ UNCHANGED <<shlibvars, fetch, links, race>>

\* Every thread has been spawned and joined; the map is rebuilt.
CksumJoin ==
    /\ cksum.pc = "calculate"
    /\ \A k \in DOMAIN cksum.workers : cksum.workers[k] = "finished"
    /\ cksum' = [cksum EXCEPT !.pc = "report",
                              !.distfiles = Rekey(cksum.distfiles)]
    /\ UNCHANGED <<shlibvars, fetch, links, race>>

\* The final passes: results in di_lines order, then the entries without a
\* checksum in the order the HashMap yields them.
CksumReport ==
    /\ cksum.pc = "report"
    /\ LET r == ReportLines(cksum.distfiles, cksum.di_lines, 1, <<>>)
       IN  IF r.rv = 1
           THEN cksum' = [cksum EXCEPT !.pc = "exit", !.out = r.out,
                                       !.err = r.err, !.rv = 1]
           ELSE \E order \in Orderings(Unprocessed(cksum.distfiles)) :
                   cksum' = [cksum EXCEPT
                       !.pc = "exit", !.out = r.out,
                       !.err = [j \in 1..Len(order) |-> NoChecksum(cksum.algorithm, order[j])],
                       !.rv = IF order = <<>> THEN 0 ELSE 2]
    /\ UNCHANGED <<shlibvars, fetch, links, race>>

\* check-shlibs is not the command running.
CheckShlibsOff ==
    /\ target = "elf"
    /\ env = [fs |-> {}, admin |-> "ok", dump |-> <<>>,
              platform_rpath |-> None, skip_system_libs |-> FALSE]
    /\ state = NoState
    /\ stdout = <<>>
    /\ stderr = <<>>
    /\ nread = 0
    /\ dumps = 0
    /\ last = NoLast
    /\ pc = "off"
    /\ exit = -1
    /\ environ = BaseEnviron

\* main() runs the command named on the command line.
Init ==
    \/ CheckShlibsInit /\ fetch = NoFetch /\ links = NoLinks /\ cksum = NoCksum
                       /\ race = NoRace
    \/ CheckShlibsOff /\ FetchInit /\ links = NoLinks /\ cksum = NoCksum
                      /\ race = NoRace
    \/ CheckShlibsOff /\ fetch = NoFetch /\ LinksInit /\ cksum = NoCksum
                      /\ race = NoRace
    \/ CheckShlibsOff /\ fetch = NoFetch /\ links = NoLinks /\ CksumInit
                      /\ race = NoRace
    \/ CheckShlibsOff /\ fetch = NoFetch /\ links = NoLinks /\ cksum = NoCksum
                      /\ RaceInit

Next ==
    \/ Configure \/ ConfigFailed \/ CheckElf \/ CheckMacho \/ ReadFailed \/ Eof
    \/ FetchStart \/ FetchSite \/ FetchNotFound \/ FetchExit
    \/ RaceStart \/ RaceUnlink \/ RaceSite \/ RaceNotFound
    \/ RaceRename \/ RaceMove \/ RaceLen
    \/ LinksSkip \/ LinksLink \/ LinksError \/ LinksEof
    \/ CksumFiles \/ CksumNoDistinfo \/ CksumDistinfo
    \/ CksumSpawn \/ CksumWorker \/ CksumRelease \/ CksumJoin \/ CksumReport

Spec == Init /\ [][Next]_vars

\* The process is sequential and keeps running: a step that can be taken is
\* taken.
SpecFair == Spec /\ WF_vars(Next)


(***************************************************************************)
(* Properties                                                              *)
(***************************************************************************)

\* The requirement records of the last check_dso call.
ReqIdx == 1..Len(last.reqs)

\* The positions of seq holding a line of the given kind.
KindIdx(seq, kind) == {j \in 1..Len(seq) : seq[j].kind = kind}

\* declared_dependencies has an entry for pkg / a runtime entry for pkg.
HasDep(pkg) == \E j \in 1..Len(state.depends) : state.depends[j][3] = pkg

HasRuntimeDep(pkg) ==
    \E j \in 1..Len(state.depends) :
        /\ state.depends[j][3] = pkg
        /\ state.depends[j][1] \in {"full", "indirect-full"}

\* The RUNPATH entries of the last object, as a set.
LastRunpath ==
    LET rp == ElfRunpathList(last.object) IN {rp[j] : j \in 1..Len(rp)}

LastSyspath ==
    LET sp == ElfSyspath(state, env) IN {sp[j] : j \in 1..Len(sp)}

\* lib exists at the plain / the staged candidate of some RUNPATH entry.
PlainExists(lib) ==
    \E R \in LastRunpath : Exists(Push(R, lib), env)

StagedExists(lib) ==
    \E R \in LastRunpath :
        Exists(Push(Push(state.destdir,
                         IF IsAbsolute(R) THEN DropSeps(R) ELSE R), lib), env)

SystemExists(lib) ==
    \E S \in LastSyspath : Exists(Push(S, lib), env)

IsElfRun == target = "elf" /\ last.object.format = "elf"

IsMachoRun == target = "macho" /\ last.object.format = "macho"

C2_WrongKindOnce ==
    \A i \in ReqIdx :
        LET c == last.reqs[i].pkg IN
        (c.called /\ c.entry = "some" /\ HasDep(c.owner) /\ ~HasRuntimeDep(c.owner))
        => c.out = <<Diag("notruntime", last.path, last.reqs[i].libpath, c.owner)>>

\* C2 witness: such a call, with two non-runtime entries for the owner.
C2_Witness ==
    \E i \in ReqIdx :
        LET c == last.reqs[i].pkg IN
        /\ c.called /\ c.entry = "some" /\ ~HasRuntimeDep(c.owner)
        /\ Cardinality({j \in 1..Len(state.depends) :
                            state.depends[j][3] = c.owner}) >= 2
        /\ Len(c.out) = 1

\* C3 as stated: a check_pkg call on a path owned by a package that no
\* declared_dependencies entry names prints nothing and returns success.
C3_UnregisteredSuccess ==
    \A i \in ReqIdx :
        LET c == last.reqs[i].pkg IN
        (c.called /\ c.entry = "some" /\ ~HasDep(c.owner))
        => (c.out = <<>> /\ c.res = "true")

C5_RuntimeAccepted ==
    \A i \in ReqIdx :
        LET c == last.reqs[i].pkg IN
        (c.called /\ c.entry = "some" /\ HasRuntimeDep(c.owner))
        => (c.res = "true" /\ c.out = <<>>)

\* C5 witness: accepted although the first entry for the owner is not a
\* runtime one.
C5_Witness ==
    \E i \in ReqIdx :
        LET c == last.reqs[i].pkg IN
        /\ c.called /\ c.entry = "some" /\ c.res = "true"
        /\ \E j, k \in 1..Len(state.depends) :
            /\ j < k
            /\ state.depends[j][3] = c.owner
            /\ state.depends[j][1] \notin {"full", "indirect-full"}
            /\ state.depends[k][3] = c.owner
            /\ state.depends[k][1] \in {"full", "indirect-full"}

\* C6: on ELF, a required library that exists at no candidate of any stage
\* prints exactly one "missing library" line and nothing else; one that
\* exists at some candidate prints no "missing library" line.
C6_MissingOnce ==
    IsElfRun =>
        \A i \in ReqIdx :
            LET r == last.reqs[i]
                found == PlainExists(r.lib) \/ StagedExists(r.lib) \/ SystemExists(r.lib)
            IN  /\ ~found => r.out = <<Diag("missing", last.path, r.lib, <<>>)>>
                /\ found => KindIdx(r.out, "missing") = {}

\* C6 witness: a library missing after all three stages were tried, each
\* with at least one candidate.
C6_Witness ==
    /\ IsElfRun
    /\ \E i \in ReqIdx :
        /\ last.reqs[i].stage = "missing"
        /\ LastSyspath # {}
        /\ LastRunpath # {}
        /\ Cardinality(KindIdx(stdout, "missing")) >= 1

\* C7: a check_shlib call prints exactly one "path relative to WRKDIR"
\* line when the resolved path starts with wrkdir, whatever else fires for
\* the path, and none when it does not.
C7_WrkdirOnce ==
    \A i \in ReqIdx :
        LET r == last.reqs[i]
            hits == KindIdx(r.shlib.out, "wrkdir")
        IN  r.shlib.called =>
            IF PathStartsWith(r.libpath, state.wrkdir)
            THEN /\ Cardinality(hits) = 1
                 /\ \A j \in hits :
                        r.shlib.out[j] = Diag("wrkdir", last.path, r.libpath, <<>>)
            ELSE hits = {}

\* C7 witness: a path under wrkdir for which the extra-directory, toxic and
\* non-absolute checks fired as well.
C7_Witness ==
    \E i \in ReqIdx :
        LET o == last.reqs[i].shlib.out IN
        /\ KindIdx(o, "wrkdir") # {}
        /\ KindIdx(o, "wrkref") # {}
        /\ KindIdx(o, "toxic") # {}
        /\ KindIdx(o, "relative") # {}

\* C8: a check_shlib call prints one "matches toxic" line for every toxic
\* pattern that matches the resolved path, naming that pattern, in pattern
\* order, and none for the other patterns.
C8_ToxicPerPattern ==
    \A i \in ReqIdx :
        LET r == last.reqs[i]
            hits == KindIdx(r.shlib.out, "toxic")
            pats == {j \in 1..Len(state.toxic) : IsMatch(state.toxic[j], r.libpath)}
        IN  r.shlib.called =>
            /\ Cardinality(hits) = Cardinality(pats)
            /\ \A j \in pats :
                Cardinality({h \in hits :
                    r.shlib.out[h] = Diag("toxic", last.path, r.libpath,
                                          RegexStr(state.toxic[j]))}) = 1

\* C8 witness: one resolved path drew two toxic lines naming two patterns.
C8_Witness ==
    \E i \in ReqIdx :
        LET o == last.reqs[i].shlib.out IN
        \E h, k \in KindIdx(o, "toxic") : o[h].arg # o[k].arg

\* C9: check_shlib runs all four checks (one line per check that fires,
\* per matching directory and per matching pattern) and returns false
\* exactly when some check fired; an absolute path outside wrkdir and the
\* extra directories that matches no pattern returns true and prints nothing.
C9_ShlibResult ==
    \A i \in ReqIdx :
        LET r == last.reqs[i]
            lib == r.libpath
            wrk == IF PathStartsWith(lib, state.wrkdir) THEN 1 ELSE 0
            ref == Cardinality({j \in 1..Len(state.wrkref) :
                                    PathStartsWith(lib, state.wrkref[j])})
            tox == Cardinality({j \in 1..Len(state.toxic) :
                                    IsMatch(state.toxic[j], lib)})
            rel == IF IsAbsolute(lib) THEN 0 ELSE 1
        IN  r.shlib.called =>
            /\ Cardinality(KindIdx(r.shlib.out, "wrkdir")) = wrk
            /\ Cardinality(KindIdx(r.shlib.out, "wrkref")) = ref
            /\ Cardinality(KindIdx(r.shlib.out, "toxic")) = tox
            /\ Cardinality(KindIdx(r.shlib.out, "relative")) = rel
            /\ Len(r.shlib.out) = wrk + ref + tox + rel
            /\ r.shlib.rv = (wrk + ref + tox + rel = 0)

\* C9 witness: a call in which each of the four checks fired once, in the
\* order of the checks, and which returned false.
C9_Witness ==
    \E i \in ReqIdx :
        LET c == last.reqs[i].shlib IN
        /\ c.called
        /\ ~c.rv
        /\ Len(c.out) = 4
        /\ c.out[1].kind = "wrkdir"
        /\ c.out[2].kind = "wrkref"
        /\ c.out[3].kind = "toxic"
        /\ c.out[4].kind = "relative"

\* C10: the first entry of a Mach-O object's library list prints nothing,
\* causes no existence check and no validator call.
C10_MachoSelfSkip ==
    (IsMachoRun /\ Len(last.reqs) >= 1) =>
        LET r == last.reqs[1] IN
        /\ r.lib = last.object.libraries[1]
        /\ r.out = <<>>
        /\ r.stats = <<>>
        /\ ~r.shlib.called
        /\ ~r.pkg.called

\* C10 witness: a first entry that is missing, under WRKDIR and toxic was
\* passed over while a later entry of the same object drew a line.
C10_Witness ==
    /\ IsMachoRun
    /\ Len(last.reqs) >= 2
    /\ ~Exists(last.reqs[1].lib, env)
    /\ PathStartsWith(last.reqs[1].lib, state.wrkdir)
    /\ \E j \in 1..Len(state.toxic) : IsMatch(state.toxic[j], last.reqs[1].lib)
    /\ \E k \in 2..Len(last.reqs) : last.reqs[k].out # <<>>


\* C11: when the line just read names the same readable object as the line
\* before it, with the caches of the first pass retained, the second pass
\* prints exactly the sequence of diagnostic lines the first pass printed.
C11_SameLines ==
    [][(/\ nread' = nread + 1
        /\ last.object.readable
        /\ last'.object = last.object)
       => ReqsOut(last'.reqs, 1) = ReqsOut(last.reqs, 1)]_vars

\* The same object was read twice, the second pass was answered from the
\* caches alone, and each pass printed an ownership line and a missing line.
C11_Witness ==
    /\ nread = 2
    /\ dumps = 1
    /\ stdout = ReqsOut(last.reqs, 1) \o ReqsOut(last.reqs, 1)
    /\ KindIdx(ReqsOut(last.reqs, 1), "notruntime") # {}
    /\ KindIdx(ReqsOut(last.reqs, 1), "missing") # {}
    /\ \A i \in ReqIdx : last.reqs[i].stats = <<>> /\ last.reqs[i].pkg.dumps = 0


\* A step from map m to map n leaves every entry of m as it was.
KeepsEntries(m, n) == \A k \in DOMAIN m : k \in DOMAIN n /\ n[k] = m[k]

\* pkgdb after the first i lines of the dump have been parsed.
PkgdbAfter(i) == DumpLines(EmptyMap, SubSeq(env.dump, 1, i), 1)

\* While the dump is parsed no line replaces what an earlier line stored.
PopulationKeepsEntries ==
    (env.admin = "ok" /\ dumps > 0) =>
        \A i \in 0..Len(env.dump) :
            \A j \in i..Len(env.dump) : KeepsEntries(PkgdbAfter(i), PkgdbAfter(j))

\* C12: once a key has a value in statlibs or in pkgdb no later step replaces
\* it with a different value, neither from one line of input to the next nor
\* from one line of the dump to the next while pkgdb is populated.
C12_WriteOnce ==
    [][/\ KeepsEntries(state.statlibs, state'.statlibs)
       /\ KeepsEntries(state.pkgdb, state'.pkgdb)
       /\ PopulationKeepsEntries']_vars


\* C13: the package-admin command is invoked by the first check_pkg call and
\* at most once in the whole run, whatever its outcome.
C13_DumpOnce ==
    /\ dumps <= 1
    /\ (\E i \in ReqIdx : last.reqs[i].pkg.called) => dumps >= 1

C15_ExitSuccess == pc = "done" => exit = 0

\* The run returned after printing a path-policy line, an ownership line and
\* a missing-library line.
C15_Witness ==
    /\ pc = "done"
    /\ exit = 0
    /\ KindIdx(stdout, "toxic") # {}
    /\ KindIdx(stdout, "notruntime") # {}
    /\ KindIdx(stdout, "missing") # {}

\* check_dso visited every library of the object it parsed, in order.
AllLibrariesVisited ==
    (last.object.readable /\ last.object.format = target) =>
        /\ Len(last.reqs) = Len(last.object.libraries)
        /\ \A i \in ReqIdx : last.reqs[i].lib = last.object.libraries[i]

\* The loop of run() is left only at the end of input, with success.
LoopLeftAtEof ==
    (pc = "loop" /\ pc' # "loop") =>
        (pc' = "done" /\ exit' = 0 /\ UNCHANGED <<nread, stdout, stderr>>)

\* C16: no unreadable object, parse failure or finding stops the batch: every
\* library of a parsed object is visited, the loop is left only at the end
\* of input, and a run that has started reading reaches the end of its input.
C16_BatchCompletes ==
    /\ []AllLibrariesVisited
    /\ [][LoopLeftAtEof]_vars
    /\ (pc = "loop") ~> (pc = "done")

\* The first line could not be read; the second named an ELF object whose
\* first library drew a diagnostic line and whose second library was still
\* looked for, and the run then reached the end of its input.
C16_Witness ==
    /\ pc = "done"
    /\ nread = 2
    /\ stderr # <<>>
    /\ Len(last.reqs) = 2
    /\ last.reqs[1].out # <<>>
    /\ last.reqs[2].stage = "missing"

\* The required configuration is complete and well formed.
RequiredValid ==
    /\ environ.DESTDIR # None
    /\ environ.CROSS_DESTDIR # None
    /\ environ.WRKDIR # None
    /\ environ.PKG_ADMIN_CMD # None
    /\ Len(environ.PKG_ADMIN_CMD[1]) > 0
    /\ environ.DEPENDS_FILE # None
    /\ environ.DEPENDS_FILE[1].readable
    /\ \A i \in 1..Len(environ.DEPENDS_FILE[1].lines) :
          Len(environ.DEPENDS_FILE[1].lines[i]) = 3

\* C17: with a required configuration input missing or malformed the run
\* never reaches the loop over standard input: no line is read, nothing is
\* printed on standard output, the package-admin command is not run, and
\* the process ends with a failure status.
C17_ConfigFatal ==
    ~RequiredValid =>
        /\ pc \in {"config", "failed"}
        /\ pc = "failed" <=> exit = 1
        /\ pc = "config" <=> exit = -1
        /\ nread = 0
        /\ stdout = <<>>
        /\ dumps = 0
        /\ last = NoLast

\* The DEPENDS_FILE, the last input checked, had a line without three
\* fields, and the process ended with status 1 before reading anything.
C17_Witness ==
    /\ pc = "failed"
    /\ exit = 1
    /\ environ.DEPENDS_FILE # None
    /\ environ.DEPENDS_FILE[1].readable
    /\ \E i \in 1..Len(environ.DEPENDS_FILE[1].lines) :
          Len(environ.DEPENDS_FILE[1].lines[i]) = 2
    /\ nread = 0
    /\ stdout = <<>>


\* The file was not in the distdir, distinfo has an entry for it, and every
\* site delivered content that does not match the entry.
EverySiteFailsVerification ==
    /\ fetch.job.initial = "absent"
    /\ fetch.job.distinfo = "entry"
    /\ fetch.job.sites # <<>>
    /\ \A j \in 1..Len(fetch.job.sites) : fetch.job.sites[j].outcome = "bad"

\* C18: when every site delivers a file that fails the distinfo checksums,
\* fetch exits non-zero, the final path does not exist and no ".mktool."
\* file is left.
C18_BadChecksumCleanup ==
    (EverySiteFailsVerification /\ fetch.pc = "exit") =>
        /\ fetch.rv # 0
        /\ fetch.fs.final = "absent"
        /\ fetch.fs.temp = "absent"

\* Two sites, one ftp and one http, both failed verification, and the run
\* has ended.
C18_Witness ==
    /\ EverySiteFailsVerification
    /\ fetch.pc = "exit"
    /\ fetch.rv = 1
    /\ \E j, k \in 1..Len(fetch.job.sites) :
          fetch.job.sites[j].scheme = "ftp" /\ fetch.job.sites[k].scheme = "http"
    /\ Len(SelectSeq(fetch.err, LAMBDA m : m = VerificationFailed)) = 2
    /\ fetch.fs = Distdir("absent", "absent")


\* The lines of the input that name a link.
LinkIdx == {j \in 1..Len(links.input) : links.input[j].valid}

\* The last line naming the link of line j.
LastNaming(j) ==
    CHOOSE k \in LinkIdx :
        /\ links.input[k].link = links.input[j].link
        /\ \A m \in LinkIdx : links.input[m].link = links.input[j].link => m <= k

\* Every named link is a symlink to the original of the last line naming
\* it, below directories.
LastLineWins ==
    \A j \in LinkIdx :
        /\ links.dirs[links.input[j].link] =
               SymlinkNode(links.input[LastNaming(j)].original)
        /\ \A n \in 1..(Len(links.input[j].link) - 1) :
               links.dirs[SubSeq(links.input[j].link, 1, n)] = DirNode

ProperPrefix(q, r) == Len(q) < Len(r) /\ SubSeq(r, 1, Len(q)) = q

\* No link is a directory before the run or a parent of another link, and
\* no parent of a link is a file or a symlink before the run.
LinksCompatible ==
    \A j \in LinkIdx :
        /\ links.initial[links.input[j].link].kind # "dir"
        /\ \A k \in LinkIdx : ~ProperPrefix(links.input[j].link, links.input[k].link)
        /\ \A n \in 1..(Len(links.input[j].link) - 1) :
               links.initial[SubSeq(links.input[j].link, 1, n)].kind \in {"none", "dir"}

SelectedLines(name) ==
    {j \in 1..Len(cksum.distinfo.lines) :
        LET l == cksum.distinfo.lines[j]
        IN  /\ l.file = name
            /\ l.alg # "Size"
            /\ l.hash # IgnoreHash
            /\ cksum.algorithm # None => l.alg = cksum.algorithm[1]}

\* -s S was given and the one file named is X followed by S; distinfo has
\* lines for X and every one of them records the hash of the file.
StripModeMatch ==
    /\ cksum.stripsuffix = Some(SuffixS)
    /\ cksum.files = <<NameFS>>
    /\ cksum.distinfo.readable
    /\ SelectedLines(NameF) # {}
    /\ \A j \in SelectedLines(NameF) :
          cksum.distinfo.lines[j].hash =
              HashOf(cksum.distinfo.lines[j].alg, cksum.disk[NameFS])

\* -s S was given and the one file named does not end in S; distinfo has no
\* line for it.
StripModeNoEntry ==
    /\ cksum.stripsuffix = Some(SuffixS)
    /\ cksum.files = <<NameG>>
    /\ cksum.distinfo.readable
    /\ SelectedLines(NameG) = {}

\* C20: in strip-suffix mode a file X+S that matches the distinfo entry for
\* X prints "=> Checksum <alg> OK for X" and the run exits 0; a file not
\* ending in S without an entry yields "No checksum recorded" and exit 2.
C20_StripSuffix ==
    cksum.pc = "exit" =>
        /\ StripModeMatch =>
              /\ cksum.rv = 0
              /\ Len(cksum.out) = Cardinality(SelectedLines(NameF))
              /\ \A j \in SelectedLines(NameF) :
                    \E n \in 1..Len(cksum.out) :
                        cksum.out[n] = ChecksumOk(cksum.distinfo.lines[j].alg, NameF)
        /\ StripModeNoEntry =>
              /\ cksum.rv = 2
              /\ cksum.err = <<NoChecksum(cksum.algorithm, NameG)>>

\* The second half of C20 on its own.
C20_NoEntryPart ==
    (cksum.pc = "exit" /\ StripModeNoEntry) =>
        /\ cksum.rv = 2
        /\ cksum.out = <<>>
        /\ cksum.err = <<NoChecksum(cksum.algorithm, NameG)>>


\* The names distinfo is consulted under: the files of the command line,
\* the suffix given with -s taken off.
WantedNames ==
    {StripSuffix(cksum.files[j], cksum.stripsuffix) : j \in 1..Len(cksum.files)}

\* The file of the command line that is read for a name.
WantedFile(name) ==
    cksum.files[CHOOSE j \in 1..Len(cksum.files) :
                    /\ StripSuffix(cksum.files[j], cksum.stripsuffix) = name
                    /\ \A k \in (j + 1)..Len(cksum.files) :
                          StripSuffix(cksum.files[k], cksum.stripsuffix) # name]

\* The distinfo lines that carry a checksum of a file named, and those of
\* them that record another hash than the one of the file.
WantedLines == UNION {SelectedLines(n) : n \in WantedNames}

RecordedHashDiffers(j) ==
    LET l == cksum.distinfo.lines[j]
    IN  l.hash # HashOf(l.alg, cksum.disk[WantedFile(l.file)])

Mismatches == {j \in WantedLines : RecordedHashDiffers(j)}

\* One "Checksum OK" line per wanted distinfo line from j up to bound, in
\* the order of distinfo.
RECURSIVE OkInDistinfoOrder(_, _)
OkInDistinfoOrder(j, bound) ==
    IF j > bound THEN <<>>
    ELSE IF j \in WantedLines
    THEN <<ChecksumOk(cksum.distinfo.lines[j].alg, cksum.distinfo.lines[j].file)>>
             \o OkInDistinfoOrder(j + 1, bound)
    ELSE OkInDistinfoOrder(j + 1, bound)

\* The names without a checksum line.
Unrecorded == {n \in WantedNames : SelectedLines(n) = {}}

\* What a finished run must have printed: with a mismatch, the mismatch
\* first in distinfo order alone on stderr and status 1; without, the OK
\* lines in distinfo order, then the "No checksum recorded" lines, status 2
\* if there are any.
OrderedReport ==
    IF Mismatches # {}
    THEN LET first == CHOOSE j \in Mismatches : \A k \in Mismatches : j <= k
         IN  /\ cksum.out = OkInDistinfoOrder(1, first - 1)
             /\ cksum.err = <<ChecksumMismatch(cksum.distinfo.lines[first].alg,
                                               cksum.distinfo.lines[first].file)>>
             /\ cksum.rv = 1
    ELSE /\ cksum.out = OkInDistinfoOrder(1, Len(cksum.distinfo.lines))
         /\ \E order \in Orderings(Unrecorded) :
               cksum.err = [j \in 1..Len(order) |->
                               NoChecksum(cksum.algorithm, WantedFile(order[j]))]
         /\ cksum.rv = IF Unrecorded = {} THEN 0 ELSE 2

\* C21: "Checksum OK" lines are printed in the order of the distinfo entries
\* whatever the order of the files on the command line, "No checksum
\* recorded" errors come after them with exit status 2, and on a mismatch
\* only the first mismatching entry in distinfo order is reported, with exit
\* status 1.
C21_OutputOrder ==
    (cksum.pc = "exit" /\ cksum.distinfo.readable) => OrderedReport

\* C21 for the runs without -s: the report is the ordered one.
C21_OrderWithoutStrip ==
    (cksum.pc = "exit" /\ cksum.distinfo.readable /\ cksum.stripsuffix = None)
        => OrderedReport

\* Two files named in the order opposite to distinfo, both verified, in a
\* run without -s.
C21_Witness ==
    /\ cksum.pc = "exit"
    /\ cksum.stripsuffix = None
    /\ cksum.files = <<NameF, NameG>>
    /\ Len(cksum.out) >= 2
    /\ cksum.out[1].file = NameG
    /\ cksum.out[2].file = NameF


\* The offset of the last " pkg: " of a line.
LastMarkerPos(line) ==
    CHOOSE off \in MarkerOffsets(line) : \A o \in MarkerOffsets(line) : o <= off

\* A line of the shape "file: <path> pkg: <name>".
DumpShaped(line) ==
    /\ StrStartsWith(line, FilePrefix)
    /\ \E off \in MarkerOffsets(line) : off >= Len(FilePrefix)

\* The path of a shaped line: what lies between "file: " and the last
\* " pkg: ".
PathOfLine(line) == SubSeq(line, Len(FilePrefix) + 1, LastMarkerPos(line))

\* The index has been populated from the dump.
Populated == pc \in {"loop", "done"} /\ env.admin = "ok" /\ dumps >= 1

\* C22: every dump line "file: <path> pkg: <name>" is indexed under what
\* lies between "file: " and the last " pkg: " of the line, with the final
\* whitespace-delimited token of a line for that path as value, and no
\* owner is recorded that does not come from such a line.
C22_LastMarker ==
    Populated =>
        /\ \A i \in 1..Len(env.dump) :
              DumpShaped(env.dump[i]) =>
                  LET key == Components(PathOfLine(env.dump[i]))
                  IN  /\ key \in DOMAIN state.pkgdb
                      /\ \E j \in 1..Len(env.dump) :
                            /\ DumpShaped(env.dump[j])
                            /\ Components(PathOfLine(env.dump[j])) = key
                            /\ state.pkgdb[key] = SomePkg(LastField(env.dump[j]))
        /\ \A key \in DOMAIN state.pkgdb :
              state.pkgdb[key].some =>
                  \E j \in 1..Len(env.dump) :
                      /\ DumpShaped(env.dump[j])
                      /\ Components(PathOfLine(env.dump[j])) = key
                      /\ state.pkgdb[key].pkg = LastField(env.dump[j])

\* C22 for the dumps in which no path holds " pkg: ".
C22_SingleMarker ==
    (Populated /\ \A i \in 1..Len(env.dump) : Cardinality(MarkerOffsets(env.dump[i])) <= 1)
        => C22_LastMarker


\* The entries of PLATFORM_RPATH.
PlatformRpathEntries == SplitOn(env.platform_rpath[1], ":", 1, <<>>)

\* A directory below the cross prefix: the prefix, a separator, and the
\* entry without its leading separators.
UnderCross(cross, p) == cross \o <<"/">> \o DropSeps(p)

\* run() has built CheckState with CROSS_DESTDIR and PLATFORM_RPATH set.
CrossBuild ==
    /\ pc \in {"loop", "done"}
    /\ state.cross_destdir # None
    /\ env.platform_rpath # None

\* Entry i of the list is the i-th PLATFORM_RPATH entry below cross_destdir.
CarriesCrossPrefix(paths, i) ==
    /\ paths[i] = UnderCross(state.cross_destdir[1], PlatformRpathEntries[i])
    /\ PathStartsWith(paths[i], state.cross_destdir[1])

\* C23: with CROSS_DESTDIR set, every entry of system_paths is cross_destdir
\* joined with the PLATFORM_RPATH entry, an absolute entry included, and every
\* candidate of the system-path stage lies under cross_destdir.
C23_CrossPrefixed ==
    CrossBuild =>
        /\ Len(state.system_paths) = Len(PlatformRpathEntries)
        /\ \A i \in 1..Len(state.system_paths) :
              /\ CarriesCrossPrefix(state.system_paths, i)
              /\ CarriesCrossPrefix(ElfSyspath(state, env), i)
        /\ IsElfRun =>
              \A i \in ReqIdx :
                  last.reqs[i].stage = "syspath" =>
                      PathStartsWith(last.reqs[i].libpath, state.cross_destdir[1])

\* C23 for the relative entries of PLATFORM_RPATH alone.
C23_RelativeEntries ==
    CrossBuild =>
        /\ Len(state.system_paths) = Len(PlatformRpathEntries)
        /\ \A i \in 1..Len(state.system_paths) :
              ~IsAbsolute(PlatformRpathEntries[i]) =>
                  /\ CarriesCrossPrefix(state.system_paths, i)
                  /\ CarriesCrossPrefix(ElfSyspath(state, env), i)


\* The candidate of the runpath stage as specified: the cross prefix, when
\* set, then the RUNPATH entry, then the library name.
PrefixedRunpathCandidate(R, lib) ==
    IF state.cross_destdir # None
    THEN Push(UnderCross(state.cross_destdir[1], R), lib)
    ELSE Push(R, lib)

\* The positions of the RUNPATH entries of the last object whose specified
\* candidate for lib exists.
PrefixedHits(lib) ==
    LET rp == ElfRunpathList(last.object)
    IN  {j \in 1..Len(rp) : Exists(PrefixedRunpathCandidate(rp[j], lib), env)}

\* Requirement r resolved in the runpath stage exactly when a specified
\* candidate exists, at the first of them, with both validators run on it.
RunpathStageAsSpecified(r) ==
    LET rp == ElfRunpathList(last.object)
        hits == PrefixedHits(r.lib)
    IN  /\ r.stage = "runpath" <=> hits # {}
        /\ hits # {} =>
              LET first == CHOOSE j \in hits : \A k \in hits : j <= k
              IN  /\ r.libpath = PrefixedRunpathCandidate(rp[first], r.lib)
                  /\ r.shlib.called
                  /\ r.pkg.called

\* C24: the ELF runpath stage tests, for each RUNPATH entry R in order,
\* cross_destdir/R/library when cross_destdir is set and R/library
\* otherwise; the first candidate that exists gets the path-policy and the
\* ownership validator, and nothing later is tried for the requirement.
C24_RunpathCrossPrefix ==
    IsElfRun => \A i \in ReqIdx : RunpathStageAsSpecified(last.reqs[i])

\* C24 for the runs without CROSS_DESTDIR.
C24_WithoutCross ==
    (IsElfRun /\ state.cross_destdir = None) =>
        \A i \in ReqIdx : RunpathStageAsSpecified(last.reqs[i])


\* The ownership index as requirement i of the object just checked found it.
PkgdbBefore(i) == IF i = 1 THEN state.pkgdb ELSE last'.reqs[i - 1].st.pkgdb

\* An ELF object has been checked in this step, and its requirement i was
\* resolved at a system_paths entry: the policy validator ran, the ownership
\* validator did not.
SyspathPolicyOnly ==
    (target = "elf" /\ nread' = nread + 1 /\ last'.object.format = "elf") =>
        \A i \in 1..Len(last'.reqs) :
            LET r == last'.reqs[i]
            IN  r.stage = "syspath" =>
                    /\ r.shlib.called
                    /\ ~r.pkg.called
                    /\ r.pkg.dumps = 0
                    /\ r.out = r.shlib.out
                    /\ KindIdx(r.out, "notruntime") = {}
                    /\ r.st.pkgdb = PkgdbBefore(i)

\* C25: a requirement first resolved at a system_paths entry gets the
\* path-policy validator and never the ownership validator: no "is not a
\* runtime dependency" line, the ownership index unchanged, the
\* package-admin command not run, even for a file of a declared package
\* that is not a runtime dependency.
C25_SyspathPolicyOnly == [][SyspathPolicyOnly]_vars

\* A requirement resolved at a system path whose file the populated index
\* gives to a package declared as a build dependency only.
C25_Witness ==
    /\ IsElfRun
    /\ \E i \in ReqIdx :
          LET r == last.reqs[i]
              key == Components(r.libpath)
          IN  /\ r.stage = "syspath"
              /\ key \in DOMAIN state.pkgdb
              /\ state.pkgdb[key].some
              /\ HasDep(state.pkgdb[key].pkg)
              /\ ~HasRuntimeDep(state.pkgdb[key].pkg)


\* A Mach-O library entry passed over as a system library.
SkippedAsSystem(lib) ==
    /\ env.skip_system_libs
    /\ \E pre \in SystemLibPrefixes : IsPrefix(pre, lib)

\* destdir/strip_leading_slash(lib)
StagedPath(lib) ==
    state.destdir \o <<"/">> \o (IF IsAbsolute(lib) THEN Tail(lib) ELSE lib)

\* C26: on Mach-O, for every library entry after the first that is not
\* skipped as a system library: if destdir/strip_leading_slash(path) exists
\* nothing is printed and no validator runs; otherwise if the literal path
\* exists the path-policy and the ownership validator both run on it;
\* otherwise exactly one "missing library" line is printed.
C26_MachoResolution ==
    IsMachoRun =>
        \A i \in ReqIdx :
            LET r == last.reqs[i]
            IN  (i >= 2 /\ ~SkippedAsSystem(r.lib)) =>
                    IF Exists(StagedPath(r.lib), env)
                    THEN /\ r.out = <<>>
                         /\ ~r.shlib.called
                         /\ ~r.pkg.called
                    ELSE IF Exists(r.lib, env)
                    THEN /\ r.libpath = r.lib
                         /\ r.shlib.called
                         /\ r.pkg.called
                         /\ r.out = r.shlib.out \o r.pkg.out
                         /\ KindIdx(r.out, "missing") = {}
                    ELSE /\ r.out = <<Diag("missing", last.path, r.lib, <<>>)>>
                         /\ ~r.shlib.called
                         /\ ~r.pkg.called

\* One Mach-O object with an entry found at its literal path and validated
\* by both validators and another entry that is missing.
C26_Witness ==
    /\ IsMachoRun
    /\ \E i \in ReqIdx :
          /\ i >= 2
          /\ last.reqs[i].stage = "direct"
          /\ last.reqs[i].pkg.called
          /\ ~Exists(StagedPath(last.reqs[i].lib), env)
    /\ \E i \in ReqIdx :
          /\ i >= 2
          /\ last.reqs[i].stage = "missing"
          /\ Cardinality(KindIdx(last.reqs[i].out, "missing")) = 1


\* The diagnostics of one requirement: those of the path policy, then the
\* one of the ownership validator, or the "missing library" line.
RequirementLines(path, r) ==
    IF r.stage = "missing" THEN <<Diag("missing", path, r.lib, <<>>)>>
    ELSE r.shlib.out \o r.pkg.out

\* The diagnostics of the requirements from i on, in the order of the list.
RECURSIVE ObjectLines(_, _, _)
ObjectLines(path, reqs, i) ==
    IF i > Len(reqs) THEN <<>>
    ELSE RequirementLines(path, reqs[i]) \o ObjectLines(path, reqs, i + 1)

\* A step that reads a line naming an object appends to standard output the
\* diagnostics of its requirements, one requirement per entry of its
\* library list and in that order; any other step prints nothing there.
AppendsInOrder ==
    IF nread' = nread + 1 /\ last'.object.readable /\ last'.object.format \in {"elf", "macho"}
    THEN /\ Len(last'.reqs) = Len(last'.object.libraries)
         /\ \A i \in 1..Len(last'.reqs) : last'.reqs[i].lib = last'.object.libraries[i]
         /\ stdout' = stdout \o ObjectLines(last'.path, last'.reqs, 1)
    ELSE stdout' = stdout

\* C27: standard output is the per-requirement diagnostics concatenated in
\* input order of the objects and, within an object, in the order of its
\* required-library list, policy lines of a requirement before its
\* ownership line; nothing is reordered or dropped as a duplicate, so an
\* object named twice has its diagnostics printed twice.
C27_DiagnosticOrder == [][AppendsInOrder]_vars

\* An object named on two lines whose diagnostics, with a policy line and
\* an ownership line for one requirement among them, were printed twice.
C27_Witness ==
    /\ nread = 2
    /\ \E i \in ReqIdx :
          /\ last.reqs[i].shlib.out # <<>>
          /\ last.reqs[i].pkg.out # <<>>
    /\ \E i, j \in ReqIdx : i < j /\ last.reqs[i].out # <<>> /\ last.reqs[j].out # <<>>
    /\ stdout = ObjectLines(last.path, last.reqs, 1) \o ObjectLines(last.path, last.reqs, 1)


\* The paths the file system was asked about for the requirements from i
\* on, in the order of the queries.
RECURSIVE ReqsStats(_, _)
ReqsStats(reqs, i) ==
    IF i > Len(reqs) THEN <<>> ELSE reqs[i].stats \o ReqsStats(reqs, i + 1)

\* In a step that checks an object the file system is asked about no path
\* the cache already held and about no path twice, and the cache gains
\* exactly the paths asked about.
QueriedOnce ==
    LET q == ReqsStats(last'.reqs, 1)
    IN  IF nread' = nread + 1 /\ last'.object.readable
        THEN /\ \A j \in 1..Len(q) : q[j] \notin DOMAIN state.statlibs
             /\ \A j, k \in 1..Len(q) : q[j] = q[k] => j = k
             /\ DOMAIN state'.statlibs = DOMAIN state.statlibs \cup {q[j] : j \in 1..Len(q)}
        ELSE DOMAIN state'.statlibs = DOMAIN state.statlibs

\* Every cached value is the actual existence of its path.
CacheIsTruthful ==
    \A key \in DOMAIN state.statlibs : state.statlibs[key] = (key \in env.fs)

\* C28: every existence test of a run goes through the existence cache keyed
\* by the composed candidate path, so the file system is asked at most once
\* per distinct path, and every cached value equals the actual existence of
\* its path.
C28_Memoized == [][QueriedOnce]_vars /\ []CacheIsTruthful

\* A second object resolved a requirement from the cache alone, which holds
\* paths that exist and paths that do not.
C28_Witness ==
    /\ nread = 2
    /\ \E i \in ReqIdx :
          /\ last.reqs[i].stage \in {"runpath", "direct"}
          /\ last.reqs[i].stats = <<>>
    /\ \E k \in DOMAIN state.statlibs : state.statlibs[k]
    /\ \E k \in DOMAIN state.statlibs : ~state.statlibs[k]


\* Both calls have chosen their temporary file and the names differ.
DistinctTemps ==
    (race.w[1].temp # NoTemp /\ race.w[2].temp # NoTemp)
        => race.w[1].temp # race.w[2].temp

\* What a complete download leaves: the whole body, with the recorded
\* checksum when distinfo lists the file.
WholeContents == IF race.distinfo = "entry" THEN {"good"} ELSE {"good", "bad"}

\* The final path does not exist, holds what it held before the calls, or
\* holds a complete (and verified) download.
FinalIsWhole == race.final \in {"absent", race.initial} \cup WholeContents

BothReturned == \A p \in Fetchers : race.w[p].pc = "returned"

\* The call that returned second, if it got as far as rename_to_final,
\* succeeded and its temporary file is gone.
SecondSucceeds ==
    LET p == race.done[2]
    IN  race.w[p].fetched =>
            /\ race.w[p].result = "ok"
            /\ race.temps[race.w[p].temp] = "absent"

NoTempRemains == \A n \in TempNames : race.temps[n] = "absent"

\* C29: two fetchers of one distfile write to distinct temporary files; the
\* final path at every moment does not exist or holds a completely
\* downloaded and, when distinfo lists it, verified file; the fetcher that
\* finishes second removes its temporary file and reports success; no
\* temporary file remains once both have returned.
C29_RaceSafe ==
    race.pc = "run" =>
        /\ DistinctTemps
        /\ FinalIsWhole
        /\ BothReturned => (SecondSucceeds /\ NoTempRemains)

\* C29 for the runs in which both fetchers got a whole, verified body and
\* reached rename_to_final.
C29_BothDownloaded ==
    race.pc = "run" =>
        /\ DistinctTemps
        /\ FinalIsWhole
        /\ (BothReturned /\ \A p \in Fetchers : race.w[p].fetched)
              => (SecondSucceeds /\ NoTempRemains)

\* Both fetchers passed the existence test of rename_to_final before either
\* renamed, the second rename replaced the file, and both returned.
C29_Witness ==
    /\ race.pc = "run"
    /\ BothReturned
    /\ \A p \in Fetchers : race.w[p].fetched /\ race.w[p].result = "ok"
    /\ race.final \in WholeContents
    /\ race.initial = "short"
    /\ race.distinfo = "entry"


\* The entries whose thread has been spawned and has not ended.
LiveWorkers == {k \in DOMAIN cksum.workers : cksum.workers[k] \in {"running", "calculated"}}

\* No more threads are alive than the jobs value allows, and the count of
\* the dispatch loop is their number.
WorkersBounded ==
    /\ Cardinality(LiveWorkers) <= MaxThreads(cksum.jobs)
    /\ cksum.active = Cardinality(LiveWorkers)

Dispatching == cksum.pc = "calculate"

AllHandedOut == \A k \in DOMAIN cksum.workers : cksum.workers[k] # "waiting"

PastJoin == cksum.pc \in {"report", "exit"}

\* C30: for every jobs value, 0 and 1 included, and every list of files,
\* the calculate() workers running at one time never exceed jobs, every
\* entry is eventually handed to a worker, and the run gets past the join
\* of all workers.
C30_DispatchTerminates ==
    /\ []WorkersBounded
    /\ Dispatching ~> AllHandedOut
    /\ Dispatching ~> PastJoin

\* C30 for the jobs values of 1 and more.
C30_PositiveJobs ==
    /\ []WorkersBounded
    /\ (Dispatching /\ MaxThreads(cksum.jobs) >= 1) ~> (AllHandedOut /\ PastJoin)

\* With -j 0 and an entry to process the dispatch loop never gets a slot.
C30_ZeroJobsStuck ==
    (Dispatching /\ MaxThreads(cksum.jobs) = 0 /\ DOMAIN cksum.workers # {})
        => (AllHandedOut = FALSE /\ cksum.active = 0)

\* Two entries were processed one after the other under -j 1.
C30_Witness ==
    /\ cksum.pc = "report"
    /\ cksum.jobs = Some(1)
    /\ Cardinality(DOMAIN cksum.workers) = 2

=============================================================================
